---- MODULE Spec2Model ----
(***************************************************************************)
(* Model of the NTFS whole-volume scan of crates/disk-scanner/src/         *)
(* mft_scan.rs: path normalisation, the volume filter, record enumeration, *)
(* the recursive size map, the child index, the tree materialiser and the  *)
(* top-N heap mode.                                                        *)
(*                                                                         *)
(* Strings are sequences of one-character strings (all ASCII), so that the *)
(* byte-level operations of the source (trim, replace, rfind, slicing) are *)
(* computed and not assumed.  Option<T> is a sequence of length 0 (None)   *)
(* or 1 (Some).  u64 is modelled with the maximum U64_MAX.                 *)
(***************************************************************************)
EXTENDS Integers, Sequences, FiniteSets, Bags, TLC

VARIABLES
    pc,            \* position of the scan thread in the entry point
    path,          \* the user-supplied path string
    path_buf,      \* the resolved (canonicalized) path
    drive,         \* drive letter extracted from path_buf
    mft,           \* the loaded MFT: the raw file records in iteration order
    numbered,      \* number of further file records of the MFT, after those of mft,
                   \* that are not listed but made from their number (NumberedFile)
    pos,           \* number of MFT records already handed to the iterate_files callback
    shallow_dirs,  \* argument of scan_volume_mft
    n,             \* argument of scan_volume_mft_top_files
    progress,      \* argument progress: is a callback supplied
    counter,       \* AtomicU64 counter of accepted records
    records,       \* Vec<MftRecord> buffer of the tree mode
    heap,          \* BinaryHeap<Reverse<(size, path, modified)>> of the top-N mode
    events,        \* the invocations of the progress callback, in the order made
    load,          \* Volume::new and Mft::new: the progress reports the loader
                   \* makes, how many it has made, and its result
    chan,          \* the (bytes, total) messages queued in the mpsc channel
    tx,            \* is the Sender of the channel alive
    fwd,           \* position of the forwarder thread
    result,        \* value returned by the entry point
    arg,           \* argument of a pure function under check
    ret            \* its return value

vars == <<pc, path, path_buf, drive, mft, numbered, pos, shallow_dirs, n, progress,
          counter, records, heap, events, load, chan, tx, fwd, result, arg, ret>>

\* the state of the MFT load with the channel and the forwarder thread
load_vars == <<load, chan, tx, fwd>>

----------------------------------------------------------------------------
(* Bounds of the model *)

\* stand-in for u64::MAX (TLC integers are 32 bit)
U64_MAX == 1000000
\* longest enumerated MFT of the tree mode
MaxRecs == 3
\* records beyond MAX_CHILDREN_PER_DIR in the wide volumes
WideExtra == 1
\* levels beyond MAX_DEPTH in the deep volumes
DeepExtra == 2
\* largest n of the top-N mode
MaxN == 3
\* longest enumerated MFT of the top-N mode
MaxTopRecs == 4
\* longest record list of the size-map check
MaxMapRecs == 3
\* most path segments of a spelling handed to normalize_ntfs_path
MaxSegs == 2
\* longest enumerated record list of the child-index check
MaxIndexRecs == 4
\* most chunks a record list of the child-index check is split into
MaxChunks == 4
\* a chunk size that splits the wide record list
WideChunk == 200
\* most progress reports of one MFT load
MaxLoadMsgs == 2
\* accepted records beyond a multiple of PROGRESS_EVERY in the large volumes
ProgressExtra == 1
\* multiples of PROGRESS_EVERY the largest volume of the top-N mode holds
ProgressRounds == 2

----------------------------------------------------------------------------
(* Program constants *)

MAX_DEPTH == 10
MAX_CHILDREN_PER_DIR == 500
PROGRESS_EVERY == 5000
PAR_CHUNK_SIZE == 80000

----------------------------------------------------------------------------
(* Characters and strings *)

BS == "\\"
None == <<>>
Some(x) == <<x>>

UpperLetters == <<"A","B","C","D","E","F","G","H","I","J","K","L","M",
                  "N","O","P","Q","R","S","T","U","V","W","X","Y","Z">>
LowerLetters == <<"a","b","c","d","e","f","g","h","i","j","k","l","m",
                  "n","o","p","q","r","s","t","u","v","w","x","y","z">>

Min(a, b) == IF a <= b THEN a ELSE b

\* a sequential loop "for i in lo..=hi { acc = Op(acc, i) }", evaluated by halving
\* the range so that long loops stay within the evaluator's stack (the test
\* left = left only makes the evaluator compute the first half before the second)
RECURSIVE ForLoop(_, _, _, _)
ForLoop(Op(_, _), lo, hi, acc) ==
    IF lo > hi THEN acc
    ELSE IF lo = hi THEN Op(acc, lo)
    ELSE LET mid == (lo + hi) \div 2
             left == ForLoop(Op, lo, mid, acc)
         IN IF left = left THEN ForLoop(Op, mid + 1, hi, left) ELSE acc

IndexOf(seq, c) == IF \E i \in 1..Len(seq) : seq[i] = c
                   THEN CHOOSE i \in 1..Len(seq) : seq[i] = c
                   ELSE 0

is_ascii_alphabetic(c) == IndexOf(UpperLetters, c) > 0 \/ IndexOf(LowerLetters, c) > 0

to_ascii_lowercase(c) ==
    IF IndexOf(UpperLetters, c) > 0 THEN LowerLetters[IndexOf(UpperLetters, c)] ELSE c

to_uppercase(s) ==
    [i \in 1..Len(s) |->
        IF IndexOf(LowerLetters, s[i]) > 0 THEN UpperLetters[IndexOf(LowerLetters, s[i])]
        ELSE s[i]]

\* the byte of an ASCII character (only the characters the model uses)
Byte(c) ==
    IF IndexOf(UpperLetters, c) > 0 THEN 64 + IndexOf(UpperLetters, c)
    ELSE IF IndexOf(LowerLetters, c) > 0 THEN 96 + IndexOf(LowerLetters, c)
    ELSE IF c = "." THEN 46
    ELSE IF c = "/" THEN 47
    ELSE IF c = ":" THEN 58
    ELSE IF c = "?" THEN 63
    ELSE 92

char_eq_ignore_ascii_case(a, b) == to_ascii_lowercase(a) = to_ascii_lowercase(b)

eq_ignore_ascii_case(a, b) ==
    /\ Len(a) = Len(b)
    /\ \A i \in 1..Len(a) : char_eq_ignore_ascii_case(a[i], b[i])

\* str::trim_end_matches(c)
trim_end_matches(s, c) ==
    LET keep == {i \in 1..Len(s) : s[i] # c}
        last == IF keep = {} THEN 0 ELSE CHOOSE i \in keep : \A j \in keep : j <= i
    IN SubSeq(s, 1, last)

\* str::trim_start_matches(c)
trim_start_matches(s, c) ==
    LET keep == {i \in 1..Len(s) : s[i] # c}
        first == IF keep = {} THEN Len(s) + 1 ELSE CHOOSE i \in keep : \A j \in keep : i <= j
    IN SubSeq(s, first, Len(s))

\* str::replace(a, b) for single characters
replace(s, a, b) == [i \in 1..Len(s) |-> IF s[i] = a THEN b ELSE s[i]]

starts_with(s, p) == Len(p) <= Len(s) /\ SubSeq(s, 1, Len(p)) = p

\* str::rfind(c): the 1-based position of the last c, 0 for None
rfind(s, c) ==
    LET hits == {i \in 1..Len(s) : s[i] = c}
    IN IF hits = {} THEN 0 ELSE CHOOSE i \in hits : \A j \in hits : j <= i

\* str::rsplit(c).next(): the part after the last c, the whole string without c
rsplit_next(s, c) == SubSeq(s, rfind(s, c) + 1, Len(s))

\* the order of str (byte-wise lexicographic)
RECURSIVE str_lt(_, _)
str_lt(a, b) ==
    IF b = <<>> THEN FALSE
    ELSE IF a = <<>> THEN TRUE
    ELSE IF Byte(Head(a)) # Byte(Head(b)) THEN Byte(Head(a)) < Byte(Head(b))
    ELSE str_lt(Tail(a), Tail(b))

----------------------------------------------------------------------------
(* u64 arithmetic *)

\* a + that wraps where saturating_add stops
saturating_add_wrapping(a, b) == IF a > U64_MAX - b THEN a - (U64_MAX - b) - 1 ELSE a + b

\* u64::saturating_add
saturating_add(a, b) == IF a > U64_MAX - b THEN U64_MAX ELSE a + b

\* + and += on u64: wrapping, as in a release build (a debug build panics); the
\* sizes of the volumes below keep every such sum under U64_MAX
add_u64(a, b) == IF a > U64_MAX - b THEN a - (U64_MAX - b) - 1 ELSE a + b

----------------------------------------------------------------------------
(* Path utilities *)

\* drive_letter_from_volume_root: None or Some(drive)
drive_letter_from_volume_root(volume_root) ==
    LET s == trim_end_matches(volume_root, BS)
        d == IF Len(s) = 2 /\ s[2] = ":" THEN Some(SubSeq(s, 1, 1))
             ELSE IF Len(s) >= 4 /\ starts_with(s, <<BS, BS, "?", BS>>)
                  THEN LET rest == SubSeq(s, 5, Len(s))
                       IN IF Len(rest) = 2 /\ rest[2] = ":" THEN Some(SubSeq(rest, 1, 1))
                          ELSE None
             ELSE None
    IN IF d = None THEN None
       ELSE IF ~is_ascii_alphabetic(d[1][1]) THEN None
       ELSE Some(to_uppercase(d[1]))

\* is_windows_volume_root that trims one trailing backslash
is_windows_volume_root_one_trim(p) ==
    LET s == IF p # <<>> /\ p[Len(p)] = BS THEN SubSeq(p, 1, Len(p) - 1) ELSE p
    IN IF Len(s) = 2 THEN is_ascii_alphabetic(s[1]) /\ s[2] = ":"
       ELSE IF Len(s) >= 4 /\ starts_with(s, <<BS, BS, "?", BS>>)
            THEN LET rest == SubSeq(s, 5, Len(s))
                 IN Len(rest) = 2 /\ is_ascii_alphabetic(rest[1]) /\ rest[2] = ":"
       ELSE FALSE

\* is_windows_volume_root
is_windows_volume_root(p) ==
    LET s == trim_end_matches(p, BS)
    IN IF Len(s) = 2 THEN is_ascii_alphabetic(s[1]) /\ s[2] = ":"
       ELSE IF Len(s) >= 4 /\ starts_with(s, <<BS, BS, "?", BS>>)
            THEN LET rest == SubSeq(s, 5, Len(s))
                 IN Len(rest) = 2 /\ is_ascii_alphabetic(rest[1]) /\ rest[2] = ":"
       ELSE FALSE

\* format!(r"{}:\", drive) and format!(r"{}:\{}", drive, rest)
format_drive_path(d, rest) == d \o <<":", BS>> \o rest

\* normalize_ntfs_path without the replacement of '/' by '\'
normalize_ntfs_path_no_replace(path_str, d) ==
    LET p == trim_end_matches(path_str, BS)
        prefix == <<BS, BS, ".", BS>> \o d \o <<":">>
    IN IF starts_with(p, prefix)
       THEN format_drive_path(d, trim_start_matches(SubSeq(p, Len(prefix) + 1, Len(p)), BS))
       ELSE IF starts_with(p, <<BS, BS, "?", BS>>) /\ Len(p) >= 6
       THEN LET rest == SubSeq(p, 5, Len(p))
            IN IF starts_with(rest, d \o <<":">>)
               THEN format_drive_path(d, trim_start_matches(SubSeq(rest, 3, Len(rest)), BS))
               ELSE p
       ELSE IF Len(p) >= 2 /\ p[2] = ":"
       THEN IF d # <<>> /\ char_eq_ignore_ascii_case(p[1], d[1])
            THEN format_drive_path(d, trim_start_matches(SubSeq(p, 3, Len(p)), BS))
            ELSE p
       ELSE p

\* normalize_ntfs_path
normalize_ntfs_path(path_str, d) ==
    LET p == replace(trim_end_matches(path_str, BS), "/", BS)
        prefix == <<BS, BS, ".", BS>> \o d \o <<":">>
    IN IF starts_with(p, prefix)
       THEN format_drive_path(d, trim_start_matches(SubSeq(p, Len(prefix) + 1, Len(p)), BS))
       ELSE IF starts_with(p, <<BS, BS, "?", BS>>) /\ Len(p) >= 6
       THEN LET rest == SubSeq(p, 5, Len(p))
            IN IF starts_with(rest, d \o <<":">>)
               THEN format_drive_path(d, trim_start_matches(SubSeq(rest, 3, Len(rest)), BS))
               ELSE p
       ELSE IF Len(p) >= 2 /\ p[2] = ":"
       THEN IF d # <<>> /\ char_eq_ignore_ascii_case(p[1], d[1])
            THEN format_drive_path(d, trim_start_matches(SubSeq(p, 3, Len(p)), BS))
            ELSE p
       ELSE p

\* path_under_volume_ascii that compares the colon and the separator, not the
\* drive letter
path_under_volume_ascii_any_drive(p, vol_trim) ==
    /\ Len(p) >= Len(vol_trim)
    /\ p[Len(vol_trim)] = vol_trim[Len(vol_trim)]
    /\ (Len(p) = Len(vol_trim) \/ p[Len(vol_trim) + 1] = BS)

\* path_under_volume_ascii (every index of an ASCII string is a char boundary)
path_under_volume_ascii(p, vol_trim) ==
    IF eq_ignore_ascii_case(p, vol_trim) THEN TRUE
    ELSE LET trim_len == Len(vol_trim)
         IN IF Len(p) <= trim_len THEN FALSE
            ELSE IF p[trim_len + 1] # BS THEN FALSE
            ELSE \A i \in 1..trim_len : char_eq_ignore_ascii_case(p[i], vol_trim[i])

----------------------------------------------------------------------------
(* Specification SpecNorm: normalize_ntfs_path applied to the spellings of  *)
(* a path.                                                                 *)

Segments == { <<"a">>, <<"b", "c">> }

RECURSIVE SeqsUpTo(_, _)
SeqsUpTo(S, k) ==
    IF k = 0 THEN { <<>> }
    ELSE LET shorter == SeqsUpTo(S, k - 1)
         IN shorter \cup { Append(s, x) : s \in {t \in shorter : Len(t) = k - 1}, x \in S }

DevicePrefixes == { <<BS, BS, ".", BS>>, <<BS, BS, "?", BS>>, <<>> }

\* a spelling of drive d and segments segs: device prefix, one separator per
\* segment, optional trailing separator
RECURSIVE JoinSegs(_, _)
JoinSegs(segs, seps) ==
    IF segs = <<>> THEN <<>>
    ELSE <<Head(seps)>> \o Head(segs) \o JoinSegs(Tail(segs), Tail(seps))

Spell(dev, d, segs, seps, trail) == dev \o d \o <<":">> \o JoinSegs(segs, seps) \o trail

NormArgsOf(d, segs) ==
    { [drive |-> d, segs |-> segs, dev |-> dev, seps |-> seps, trail |-> trail,
       path_str |-> Spell(dev, d, segs, seps, trail)] :
        dev \in DevicePrefixes,
        seps \in [1..Len(segs) -> {BS, "/"}],
        trail \in { <<>>, <<BS>>, <<"/">> } }

NormArgs ==
    UNION { NormArgsOf(a[1], a[2]) :
            a \in { <<"F">>, <<"C">> } \X SeqsUpTo(Segments, MaxSegs) }

\* no channel, no forwarder thread, nothing loaded
NoLoad == [msgs |-> <<>>, sent |-> 0, res |-> None]

NoForwarder ==
    /\ load = NoLoad /\ chan = <<>> /\ tx = FALSE /\ fwd = "none"

Idle ==
    /\ path = <<>> /\ path_buf = <<>> /\ drive = None /\ mft = <<>> /\ numbered = 0
    /\ pos = 0 /\ shallow_dirs = FALSE /\ n = 0 /\ progress = FALSE /\ counter = 0
    /\ records = <<>> /\ heap = EmptyBag /\ events = <<>> /\ NoForwarder
    /\ result = None

InitNorm ==
    /\ Idle
    /\ pc = "norm_call"
    /\ arg \in NormArgs
    /\ ret = None

Normalize ==
    /\ pc = "norm_call"
    /\ ret' = Some(normalize_ntfs_path(arg.path_str, arg.drive))
    /\ pc' = "norm_done"
    /\ UNCHANGED <<path, path_buf, drive, mft, numbered, pos, shallow_dirs, n, progress,
                   counter, records, heap, events, load_vars, result, arg>>

\* normalize_ntfs_path applied to its own result: arg keeps the first result
NormalizeAgain ==
    /\ pc = "norm_done"
    /\ arg' = [arg EXCEPT !.path_str = ret[1]]
    /\ ret' = Some(normalize_ntfs_path(ret[1], arg.drive))
    /\ pc' = "norm_again"
    /\ UNCHANGED <<path, path_buf, drive, mft, numbered, pos, shallow_dirs, n, progress,
                   counter, records, heap, events, load_vars, result>>

NextNorm == Normalize \/ NormalizeAgain

SpecNorm == InitNorm /\ [][NextNorm]_vars

----------------------------------------------------------------------------
(* Phase 3: recursive size map, child index, tree materialiser *)

\* SHALLOW_DIR_NAMES of crate::scanner
SHALLOW_DIR_NAMES == { <<"W", "i", "n", "d", "o", "w", "s">> }

\* slice::par_chunks(size): the chunks, in order
RECURSIVE par_chunks(_, _)
par_chunks(s, size) ==
    IF Len(s) = 0 THEN <<>>
    ELSE IF Len(s) <= size THEN <<s>>
    ELSE <<SubSeq(s, 1, size)>> \o par_chunks(SubSeq(s, size + 1, Len(s)), size)

EmptyMap == [k \in {} |-> 0]

\* map.entry(k).and_modify(|v| *v = v.saturating_add(s)).or_insert(s)
entry_add(map, k, s) ==
    IF k \in DOMAIN map THEN [map EXCEPT ![k] = saturating_add(@, s)]
    ELSE (k :> s) @@ map

\* the while-let loop of build_recursive_size_map over the ancestors of rest
RECURSIVE add_ancestors(_, _, _)
add_ancestors(map, rest, s) ==
    LET i == rfind(rest, BS)
    IN IF i = 0 THEN map
       ELSE LET prefix == SubSeq(rest, 1, i - 1)
            IN IF prefix = <<>> THEN map
               ELSE add_ancestors(entry_add(map, prefix, s), prefix, s)

\* the body of the per-chunk loop of build_recursive_size_map
size_map_add_record(map, r) ==
    LET p == trim_end_matches(r.full_path, BS)
    IN IF p = <<>> THEN map
       ELSE add_ancestors(entry_add(map, p, r.size), p, r.size)

\* the per-chunk closure of build_recursive_size_map
size_map_of_chunk(chunk) ==
    ForLoop(LAMBDA map, i : size_map_add_record(map, chunk[i]), 1, Len(chunk), EmptyMap)

\* a reduce closure that keeps the value the left map has for a key
size_map_merge_or_insert(a, b) ==
    [k \in DOMAIN a \cup DOMAIN b |-> IF k \in DOMAIN a THEN a[k] ELSE b[k]]

\* the reduce closure of build_recursive_size_map
size_map_merge(a, b) ==
    [k \in DOMAIN a \cup DOMAIN b |->
        IF k \in DOMAIN b
        THEN saturating_add(IF k \in DOMAIN a THEN a[k] ELSE 0, b[k])
        ELSE a[k]]

\* .map(per-chunk closure).reduce(HashMap::new, merge)
size_map_reduce(chunks) ==
    ForLoop(LAMBDA a, i : size_map_merge(a, size_map_of_chunk(chunks[i])), 1, Len(chunks),
            EmptyMap)

\* the ways reduce can group the results lo..hi of the chunks: each result is
\* folded into an identity, neighbouring groups are merged, left before right
RECURSIVE MergeTrees(_, _)
MergeTrees(lo, hi) ==
    IF lo = hi THEN { [leaf |-> lo] }
    ELSE UNION { { [left |-> l, right |-> r] : l \in MergeTrees(lo, mid), r \in MergeTrees(mid + 1, hi) } :
                 mid \in lo..(hi - 1) }

\* the map a grouping of reduce yields
RECURSIVE size_map_reduce_tree(_, _)
size_map_reduce_tree(t, chunks) ==
    IF "leaf" \in DOMAIN t THEN size_map_merge(EmptyMap, size_map_of_chunk(chunks[t.leaf]))
    ELSE size_map_merge(size_map_reduce_tree(t.left, chunks), size_map_reduce_tree(t.right, chunks))

\* the maps build_recursive_size_map can return with chunks of chunk_size
\* records, over the groupings of reduce
build_recursive_size_map_results(recs, chunk_size) ==
    IF Len(recs) = 0 THEN { EmptyMap }
    ELSE LET chunks == par_chunks(recs, chunk_size)
         IN { size_map_reduce_tree(t, chunks) : t \in MergeTrees(1, Len(chunks)) }

\* build_recursive_size_map with chunks of chunk_size records
build_recursive_size_map_chunked(recs, chunk_size) ==
    IF Len(recs) = 0 THEN EmptyMap
    ELSE size_map_reduce(par_chunks(recs, chunk_size))

\* build_recursive_size_map
build_recursive_size_map(recs) == build_recursive_size_map_chunked(recs, PAR_CHUNK_SIZE)

\* is r the volume-root record (the skip test of build_child_index)
is_root_record(r, volume_root_trim) ==
    eq_ignore_ascii_case(trim_end_matches(r.full_path, BS), volume_root_trim)

\* the per-chunk loop body that does not skip the volume-root record
child_index_add_record_with_root(idx, r, volume_root_trim) ==
    LET p == r.full_path
        j == rfind(p, BS)
        key == SubSeq(p, 1, j - 1)
    IN IF j = 0 THEN idx
       ELSE IF key \in DOMAIN idx THEN [idx EXCEPT ![key] = Append(@, r)]
       ELSE (key :> <<r>>) @@ idx

\* the per-chunk loop body that keys a record by the prefix before its first
\* backslash
child_index_add_record_first_backslash(idx, r, volume_root_trim) ==
    LET p == r.full_path
        hits == { i \in 1..Len(p) : p[i] = BS }
        j == IF hits = {} THEN 0 ELSE CHOOSE i \in hits : \A k \in hits : i <= k
        key == SubSeq(p, 1, j - 1)
    IN IF is_root_record(r, volume_root_trim) THEN idx
       ELSE IF j = 0 THEN idx
       ELSE IF key \in DOMAIN idx THEN [idx EXCEPT ![key] = Append(@, r)]
       ELSE (key :> <<r>>) @@ idx

\* the body of the per-chunk loop of build_child_index
child_index_add_record(idx, r, volume_root_trim) ==
    LET p == r.full_path
        j == rfind(p, BS)
        key == SubSeq(p, 1, j - 1)
    IN IF is_root_record(r, volume_root_trim) THEN idx
       ELSE IF j = 0 THEN idx
       ELSE IF key \in DOMAIN idx THEN [idx EXCEPT ![key] = Append(@, r)]
       ELSE (key :> <<r>>) @@ idx

\* the per-chunk closure of build_child_index
child_index_of_chunk(chunk, volume_root_trim) ==
    ForLoop(LAMBDA idx, i : child_index_add_record(idx, chunk[i], volume_root_trim),
            1, Len(chunk), EmptyMap)

\* a reduce closure that puts the right list before the left one
child_index_merge_prepend(a, b) ==
    [k \in DOMAIN a \cup DOMAIN b |->
        (IF k \in DOMAIN b THEN b[k] ELSE <<>>) \o (IF k \in DOMAIN a THEN a[k] ELSE <<>>)]

\* the reduce closure of build_child_index
child_index_merge(a, b) ==
    [k \in DOMAIN a \cup DOMAIN b |->
        (IF k \in DOMAIN a THEN a[k] ELSE <<>>) \o (IF k \in DOMAIN b THEN b[k] ELSE <<>>)]

\* .map(per-chunk closure).reduce(HashMap::new, merge)
child_index_reduce(chunks, volume_root_trim) ==
    ForLoop(LAMBDA a, i : child_index_merge(a, child_index_of_chunk(chunks[i], volume_root_trim)),
            1, Len(chunks), EmptyMap)

\* the index a grouping of reduce yields: each chunk's index folded into an
\* identity, neighbouring groups merged, left before right
RECURSIVE child_index_reduce_tree(_, _, _)
child_index_reduce_tree(t, chunks, volume_root_trim) ==
    IF "leaf" \in DOMAIN t
    THEN child_index_merge(EmptyMap, child_index_of_chunk(chunks[t.leaf], volume_root_trim))
    ELSE child_index_merge(child_index_reduce_tree(t.left, chunks, volume_root_trim),
                           child_index_reduce_tree(t.right, chunks, volume_root_trim))

\* the indexes build_child_index can return with chunks of chunk_size records,
\* over the groupings of reduce
build_child_index_results(recs, volume_root_trim, chunk_size) ==
    IF Len(recs) = 0 THEN { EmptyMap }
    ELSE LET chunks == par_chunks(recs, chunk_size)
         IN { child_index_reduce_tree(t, chunks, volume_root_trim) :
                t \in MergeTrees(1, Len(chunks)) }

\* build_child_index
build_child_index(recs, volume_root_trim) ==
    LET roots == {i \in 1..Len(recs) : is_root_record(recs[i], volume_root_trim)}
        root == IF roots = {} THEN None
                ELSE Some(recs[CHOOSE i \in roots : \A j \in roots : i <= j])
    IN [root_size |-> IF root = None THEN 0 ELSE root[1].size,
        root_modified |-> IF root = None THEN None ELSE root[1].modified,
        index |-> IF Len(recs) = 0 THEN EmptyMap
                  ELSE child_index_reduce(par_chunks(recs, PAR_CHUNK_SIZE), volume_root_trim)]

\* the shallow test comparing the name case-sensitively
is_shallow_case_sensitive(rec, name, shallow) ==
    /\ shallow
    /\ rec.is_dir
    /\ name \in SHALLOW_DIR_NAMES

\* the shallow test of both materialisers
is_shallow(rec, name, shallow) ==
    /\ shallow
    /\ rec.is_dir
    /\ \E s \in SHALLOW_DIR_NAMES : eq_ignore_ascii_case(s, name)

\* the size of a shallow node
shallow_size(recursive_sizes, rec) ==
    LET k == trim_end_matches(rec.full_path, BS)
    IN IF k \in DOMAIN recursive_sizes THEN recursive_sizes[k] ELSE rec.size

FileNode(p, name, size, is_dir, modified, children) ==
    [path |-> p, name |-> name, size |-> size, is_dir |-> is_dir,
     modified |-> modified, children |-> children]

\* count_nodes that counts the children but not their descendants
count_nodes_one_level(node) ==
    IF node.children = <<>> THEN 1 ELSE add_u64(1, Len(node.children))

\* count_nodes
RECURSIVE count_nodes(_)
count_nodes(node) ==
    IF node.children = <<>> THEN 1
    ELSE add_u64(1, ForLoop(LAMBDA sum, i : add_u64(sum, count_nodes(node.children[i])),
                            1, Len(node.children), 0))

RECURSIVE build_subtree_from_index(_, _, _, _, _, _)

\* subtree_step that still recurses at depth MAX_DEPTH
subtree_step_recurse_at_max_depth(index, recursive_sizes, path_prefix, rec, depth, shallow, acc) ==
    LET child_name == rsplit_next(rec.full_path, BS)
        child_path == rec.full_path
        sub == build_subtree_from_index(index, recursive_sizes, child_path, child_name,
                                        depth + 1, shallow)
    IN IF Len(acc.children) >= MAX_CHILDREN_PER_DIR THEN acc
       ELSE IF eq_ignore_ascii_case(rec.full_path, path_prefix) THEN acc
       ELSE IF is_shallow(rec, child_name, shallow)
       THEN LET child_size == shallow_size(recursive_sizes, rec)
            IN [size |-> add_u64(acc.size, child_size),
                file_count |-> add_u64(acc.file_count, 1),
                children |-> Append(acc.children,
                    FileNode(child_path, child_name, child_size, TRUE, rec.modified, <<>>))]
       ELSE IF depth <= MAX_DEPTH
       THEN [size |-> add_u64(acc.size, sub.node.size),
             file_count |-> add_u64(acc.file_count, sub.cnt),
             children |-> Append(acc.children, sub.node)]
       ELSE [size |-> add_u64(acc.size, rec.size),
             file_count |-> add_u64(acc.file_count, 1),
             children |-> Append(acc.children,
                 FileNode(child_path, child_name, rec.size, rec.is_dir, rec.modified, <<>>))]

\* subtree_step that leaves the size of a shallow child out of the sum
subtree_step_shallow_not_summed(index, recursive_sizes, path_prefix, rec, depth, shallow, acc) ==
    LET child_name == rsplit_next(rec.full_path, BS)
        child_path == rec.full_path
        sub == build_subtree_from_index(index, recursive_sizes, child_path, child_name,
                                        depth + 1, shallow)
    IN IF Len(acc.children) >= MAX_CHILDREN_PER_DIR THEN acc
       ELSE IF eq_ignore_ascii_case(rec.full_path, path_prefix) THEN acc
       ELSE IF is_shallow(rec, child_name, shallow)
       THEN LET child_size == shallow_size(recursive_sizes, rec)
            IN [size |-> acc.size,
                file_count |-> add_u64(acc.file_count, 1),
                children |-> Append(acc.children,
                    FileNode(child_path, child_name, child_size, TRUE, rec.modified, <<>>))]
       ELSE IF depth < MAX_DEPTH
       THEN [size |-> add_u64(acc.size, sub.node.size),
             file_count |-> add_u64(acc.file_count, sub.cnt),
             children |-> Append(acc.children, sub.node)]
       ELSE [size |-> add_u64(acc.size, rec.size),
             file_count |-> add_u64(acc.file_count, 1),
             children |-> Append(acc.children,
                 FileNode(child_path, child_name, rec.size, rec.is_dir, rec.modified, <<>>))]

\* the body of the for loop of build_subtree_from_index on the child record rec,
\* acc = [size, file_count, children]; the loop is left (break) once
\* MAX_CHILDREN_PER_DIR children are pushed
subtree_step(index, recursive_sizes, path_prefix, rec, depth, shallow, acc) ==
    LET child_name == rsplit_next(rec.full_path, BS)
        child_path == rec.full_path
        sub == build_subtree_from_index(index, recursive_sizes, child_path, child_name,
                                        depth + 1, shallow)
    IN IF Len(acc.children) >= MAX_CHILDREN_PER_DIR THEN acc
       ELSE IF eq_ignore_ascii_case(rec.full_path, path_prefix) THEN acc
       ELSE IF is_shallow(rec, child_name, shallow)
       THEN LET child_size == shallow_size(recursive_sizes, rec)
            IN [size |-> add_u64(acc.size, child_size),
                file_count |-> add_u64(acc.file_count, 1),
                children |-> Append(acc.children,
                    FileNode(child_path, child_name, child_size, TRUE, rec.modified, <<>>))]
       ELSE IF depth < MAX_DEPTH
       THEN [size |-> add_u64(acc.size, sub.node.size),
             file_count |-> add_u64(acc.file_count, sub.cnt),
             children |-> Append(acc.children, sub.node)]
       ELSE [size |-> add_u64(acc.size, rec.size),
             file_count |-> add_u64(acc.file_count, 1),
             children |-> Append(acc.children,
                 FileNode(child_path, child_name, rec.size, rec.is_dir, rec.modified, <<>>))]

\* build_subtree_from_index: [node, cnt]
build_subtree_from_index(index, recursive_sizes, path_prefix, name, depth, shallow) ==
    LET children_slice == IF path_prefix \in DOMAIN index THEN index[path_prefix] ELSE <<>>
        acc == ForLoop(LAMBDA a, i : subtree_step(index, recursive_sizes, path_prefix,
                                                  children_slice[i], depth, shallow, a),
                       1, Len(children_slice), [size |-> 0, file_count |-> 0, children |-> <<>>])
    IN [node |-> FileNode(path_prefix, name, acc.size, TRUE, None, acc.children),
        cnt |-> add_u64(acc.file_count, 1)]

\* the root lookup of build_tree_from_mft_records
direct_children_of(index, volume_root_trim, volume_root_key) ==
    LET ci == {k \in DOMAIN index : \/ eq_ignore_ascii_case(k, volume_root_key)
                                    \/ eq_ignore_ascii_case(k, volume_root_trim)}
    IN IF volume_root_key \in DOMAIN index THEN index[volume_root_key]
       ELSE IF volume_root_trim \in DOMAIN index THEN index[volume_root_trim]
       ELSE IF ci # {} THEN index[CHOOSE k \in ci : TRUE]
       ELSE <<>>

\* the closure mapped over the direct children of the root
root_child_node(index, recursive_sizes, rec, shallow) ==
    LET name == rsplit_next(rec.full_path, BS)
    IN IF is_shallow(rec, name, shallow)
       THEN FileNode(rec.full_path, name, shallow_size(recursive_sizes, rec), TRUE,
                     rec.modified, <<>>)
       ELSE build_subtree_from_index(index, recursive_sizes, rec.full_path, name, 1, shallow).node

\* the for loop over child_nodes of build_tree_from_mft_records
root_totals(child_nodes, root_size) ==
    ForLoop(LAMBDA acc, i :
                [total_size |-> add_u64(acc.total_size, child_nodes[i].size),
                 file_count |-> add_u64(acc.file_count, count_nodes(child_nodes[i]))],
            1, Len(child_nodes), [total_size |-> root_size, file_count |-> 1])

\* build_tree_from_mft_records from the root lookup on, with the child index
\* ci and the size map it has built
build_tree_from_index(ci, recursive_sizes, volume_root_trim, volume_root_key, root_name, root_path_str, shallow) ==
    LET direct_children == direct_children_of(ci.index, volume_root_trim, volume_root_key)
        child_nodes == [i \in 1..Len(direct_children) |->
                            root_child_node(ci.index, recursive_sizes, direct_children[i], shallow)]
        tot == root_totals(child_nodes, ci.root_size)
    \* both maps are built before the tree is
    IN IF ci = ci /\ recursive_sizes = recursive_sizes
       THEN [root |-> FileNode(root_path_str, root_name, tot.total_size, TRUE, ci.root_modified,
                               child_nodes),
             file_count |-> tot.file_count,
             total_size |-> tot.total_size]
       ELSE [root |-> None, file_count |-> 0, total_size |-> 0]

\* build_tree_from_mft_records
build_tree_from_mft_records(recs, volume_root_trim, volume_root_key, root_name, root_path_str, shallow) ==
    build_tree_from_index(build_child_index(recs, volume_root_trim), build_recursive_size_map(recs),
                          volume_root_trim, volume_root_key, root_name, root_path_str, shallow)

----------------------------------------------------------------------------
(* The MFT contents the scans are run on.  A raw record is the FileInfo of  *)
(* ntfs-reader: path (\\.\X:\dir\file), size, is_directory, modified (unix  *)
(* timestamp, optional).                                                   *)

FileInfo(p, size, is_directory, modified) ==
    [path |-> p, size |-> size, is_directory |-> is_directory, modified |-> modified]

\* the raw path of the segments segs on drive d
RawPath(d, segs) ==
    <<BS, BS, ".", BS>> \o d \o <<":">> \o JoinSegs(segs, [i \in 1..Len(segs) |-> BS])

DriveF == <<"F">>
WIN == <<"W", "I", "N", "D", "O", "W", "S">>

Dir(segs, size) == FileInfo(RawPath(DriveF, segs), size, TRUE, None)
File(segs, size) == FileInfo(RawPath(DriveF, segs), size, FALSE, None)

RootInfo == FileInfo(RawPath(DriveF, <<>>), 0, TRUE, Some(3))

TreeAlphabet ==
    { RootInfo,
      FileInfo(RawPath(DriveF, << <<"a">> >>), 100, FALSE, Some(7)),
      FileInfo(RawPath(DriveF, << <<"d">> >>), 4, TRUE, Some(0)),
      File(<< <<"d">>, <<"x">> >>, 10),
      File(<< <<"d">>, <<"y">> >>, 20),
      Dir(<< WIN >>, 0),
      File(<< WIN, <<"a">> >>, 5),
      Dir(<< <<"e">> >>, 3),
      Dir(<< <<"d">>, WIN >>, 2),
      File(<< <<"d">>, WIN, <<"b">> >>, 7),
      FileInfo(RawPath(<<"G">>, << <<"q">> >>), 9, FALSE, None) }

\* the i-th two-letter file name
TwoLetter(i) == <<LowerLetters[(i \div 26) + 1], LowerLetters[(i % 26) + 1]>>

WideCount == MAX_CHILDREN_PER_DIR + WideExtra

\* the root, the directory parent (unless it is the root) and WideCount files in it
WideVolume(parent) ==
    <<RootInfo>> \o (IF parent = <<>> THEN <<>> ELSE <<Dir(parent, 0)>>)
        \o [i \in 1..WideCount |-> File(Append(parent, TwoLetter(i)), i)]

Chain(k) == [i \in 1..k |-> <<"c">>]

\* directories at depths 1..k-1 and a file at depth k
DeepVolume(k) == [i \in 1..k |-> IF i < k THEN Dir(Chain(i), 0) ELSE File(Chain(i), 9)]

\* directories down to MAX_DEPTH, a shallow directory below them and a file in it
DeepShallowVolume ==
    [i \in 1..MAX_DEPTH |-> Dir(Chain(i), 0)]
        \o << Dir(Append(Chain(MAX_DEPTH), WIN), 0),
              File(Append(Append(Chain(MAX_DEPTH), WIN), <<"a">>), 5) >>

\* the end-to-end scenarios 3 and 4 of the specification
ScenarioVolumes ==
    { << RootInfo, Dir(<< <<"d">> >>, 0), File(<< <<"d">>, <<"x">> >>, 10),
         File(<< <<"d">>, <<"y">> >>, 20) >>,
      << RootInfo, Dir(<< WIN >>, 0), File(<< WIN, <<"a">> >>, 5), File(<< WIN, <<"b">> >>, 7) >> }

Volumes ==
    SeqsUpTo(TreeAlphabet, MaxRecs)
        \cup { WideVolume(<<>>), WideVolume(<< <<"d">> >>) }
        \cup { DeepVolume(k) : k \in 1..(MAX_DEPTH + DeepExtra) }
        \cup { DeepShallowVolume }
        \cup ScenarioVolumes

\* the user path and what normalize_path and fs::canonicalize make of it
Resolutions ==
    { [path |-> <<"F", ":", BS>>, path_buf |-> <<BS, BS, "?", BS, "F", ":", BS>>],
      [path |-> <<"F", ":", BS, "d">>, path_buf |-> <<BS, BS, "?", BS, "F", ":", BS, "d">>] }

----------------------------------------------------------------------------
(* Progress events, errors and the MFT as the entry points see them *)

\* an invocation cb(count, msg) of the progress callback, and the thread making it
Event(thread, count, msg) == [thread |-> thread, count |-> count, msg |-> msg]

\* if let Some(ref cb) = progress { cb(count, msg) } on the scan thread
cb(evs, has_cb, count, msg) ==
    IF has_cb THEN Append(evs, Event("scan", count, msg)) ELSE evs

\* the progress test of the iterate_files callbacks that reports the difference
\* to the next multiple of PROGRESS_EVERY
report_accepted_countdown(evs, has_cb, c, full_path) ==
    IF c > 0 /\ c % PROGRESS_EVERY = 0
    THEN cb(evs, has_cb, (2 * PROGRESS_EVERY + 1) - c, full_path) ELSE evs

\* let c = counter.fetch_add(1); if c > 0 && c % PROGRESS_EVERY == 0 { cb(c, &full_path) }
report_accepted(evs, has_cb, c, full_path) ==
    IF c > 0 /\ c % PROGRESS_EVERY = 0 THEN cb(evs, has_cb, c, full_path) ELSE evs

\* "[scan:mft] opening volume..."
OpeningMsg ==
    <<"[", "s", "c", "a", "n", ":", "m", "f", "t", "]", " ", "o", "p", "e", "n", "i", "n",
      "g", " ", "v", "o", "l", "u", "m", "e", ".", ".", ".">>

\* "[scan:mft] Loading MFT "
LoadingPrefix ==
    <<"[", "s", "c", "a", "n", ":", "m", "f", "t", "]", " ", "L", "o", "a", "d", "i", "n",
      "g", " ", "M", "F", "T", " ">>

Digits == <<"0", "1", "2", "3", "4", "5", "6", "7", "8", "9">>

\* format!("{}", k) of a u64
RECURSIVE Decimal(_)
Decimal(k) ==
    IF k < 10 THEN <<Digits[k + 1]>>
    ELSE Append(Decimal(k \div 10), Digits[(k % 10) + 1])

\* 100u64 * bytes as a release build computes it: wrapping
mul_u64(a, b) == (a * b) % (U64_MAX + 1)

\* the percentage of the forwarder without the cap at 100
load_pct_uncapped(bytes, total) ==
    IF total > 0 THEN mul_u64(100, bytes) \div total ELSE 0

\* if total > 0 { (100u64 * bytes / total).min(100) } else { 0 }
load_pct(bytes, total) ==
    IF total > 0 THEN Min(mul_u64(100, bytes) \div total, 100) ELSE 0

\* format!("[scan:mft] Loading MFT {}%", pct)
LoadingMsg(pct) == LoadingPrefix \o Decimal(pct) \o <<"%">>

\* volume_root_str of scan_volume_mft
volume_root_str(pb) ==
    LET s == trim_end_matches(pb, BS)
    IN IF s # <<>> /\ s[Len(s)] = ":" THEN Append(s, BS) ELSE s

\* the errors of ntfs-reader: privileges, I/O, structure of the MFT
NtfsReaderErrors == { "ElevationError", "IOError", "BinReadError" }

\* to_disk_analyzer_error: DiskAnalyzerError::Io(io::Error::new(ErrorKind::Other, msg))
to_disk_analyzer_error(e) ==
    [ok |-> FALSE, kind |-> "Io", io_kind |-> "Other",
     msg |-> IF e = "ElevationError"
             THEN "NTFS volume access requires elevated (admin) privileges"
             ELSE IF e = "IOError" THEN "MFT read I/O error: {}"
             ELSE "MFT error: {}"]

Err(kind) == Some([ok |-> FALSE, kind |-> kind])

\* the contents of a volume's MFT: listed records, then k numbered files
Volume(files, k) == [numbered |-> k, files |-> files]
Listed(files) == Volume(files, 0)

\* the results of Volume::new and Mft::new
Loaded == Some([ok |-> TRUE])
Failed(e) == Some([ok |-> FALSE, err |-> e])

\* the name of the i-th numbered file: three letters
NumberedName(i) ==
    <<LowerLetters[((i \div 676) % 26) + 1], LowerLetters[((i \div 26) % 26) + 1],
      LowerLetters[(i % 26) + 1]>>

NumberedFile(i) == FileInfo(RawPath(DriveF, << NumberedName(i) >>), 1, FALSE, None)

\* mft.max_record and the i-th file record iterate_files hands to its callback
max_record == Len(mft) + numbered
file_at(i) == IF i <= Len(mft) THEN mft[i] ELSE NumberedFile(i - Len(mft))

\* info.modified.and_then(|t| if t.unix_timestamp() > 0 { Some } else { None })
modified_of(info) ==
    IF info.modified # None /\ info.modified[1] > 0 THEN Some(info.modified[1]) ELSE None

MftRecord(full_path, info) ==
    [full_path |-> full_path, size |-> info.size, is_dir |-> info.is_directory,
     modified |-> modified_of(info)]

----------------------------------------------------------------------------
(* Specification Spec: scan_volume_mft without a progress callback *)

Init ==
    /\ pc = "mft_start"
    /\ \E r \in Resolutions : path = r.path /\ path_buf = r.path_buf
    /\ shallow_dirs \in BOOLEAN
    /\ progress = FALSE
    /\ drive = None /\ mft = <<>> /\ numbered = 0 /\ pos = 0 /\ n = 0 /\ counter = 0
    /\ records = <<>> /\ heap = EmptyBag /\ events = <<>> /\ NoForwarder /\ result = None
    /\ arg = None /\ ret = None

\* path validation, drive letter and the "opening volume" event
ValidatePath ==
    /\ pc = "mft_start"
    /\ IF ~is_windows_volume_root(path_buf) \/ drive_letter_from_volume_root(path_buf) = None
       THEN /\ pc' = "mft_err"
            /\ result' = Err("InvalidPath")
            /\ UNCHANGED <<drive, events>>
       ELSE /\ pc' = "mft_open"
            /\ drive' = drive_letter_from_volume_root(path_buf)
            /\ events' = cb(events, progress, 0, OpeningMsg)
            /\ UNCHANGED result
    /\ UNCHANGED <<path, path_buf, mft, numbered, pos, shallow_dirs, n, progress, counter,
                   records, heap, load_vars, arg, ret>>

\* Volume::new and Mft::new_with_progress(volume, None): the MFT is loaded, or
\* the scan fails
LoadMft ==
    /\ pc = "mft_open"
    /\ ~progress
    /\ \/ /\ mft' \in Volumes
          /\ load' = [load EXCEPT !.res = Loaded]
          /\ pc' = "mft_iterate"
          /\ UNCHANGED result
       \/ \E e \in NtfsReaderErrors :
             /\ load' = [load EXCEPT !.res = Failed(e)]
             /\ pc' = "mft_err"
             /\ result' = Some(to_disk_analyzer_error(e))
             /\ UNCHANGED mft
    /\ UNCHANGED <<path, path_buf, drive, numbered, pos, shallow_dirs, n, progress, counter,
                   records, heap, events, chan, tx, fwd, arg, ret>>

\* the iterate_files callback of scan_volume_mft on the next record
IterateFile ==
    /\ pc = "mft_iterate"
    /\ pos < max_record
    /\ LET info == file_at(pos + 1)
           full_path == normalize_ntfs_path(info.path, drive[1])
           vol_trim_for_filter == drive[1] \o <<":">>
       IN IF ~path_under_volume_ascii(full_path, vol_trim_for_filter)
          THEN UNCHANGED <<counter, events, records>>
          ELSE /\ counter' = add_u64(counter, 1)
               /\ events' = report_accepted(events, progress, counter, full_path)
               /\ records' = Append(records, MftRecord(full_path, info))
    /\ pos' = pos + 1
    /\ UNCHANGED <<pc, path, path_buf, drive, mft, numbered, shallow_dirs, n, progress, heap,
                   load_vars, result, arg, ret>>

\* iterate_files returns: the final progress event
IterateDone ==
    /\ pc = "mft_iterate"
    /\ pos = max_record
    /\ events' = cb(events, progress, counter, volume_root_str(path_buf))
    /\ pc' = "mft_build"
    /\ UNCHANGED <<path, path_buf, drive, mft, numbered, pos, shallow_dirs, n, progress,
                   counter, records, heap, load_vars, result, arg, ret>>

\* build_tree_from_mft_records and the ScanResult
BuildTree ==
    /\ pc = "mft_build"
    /\ LET volume_root_trim == drive[1] \o <<":">>
           volume_root_key == drive[1] \o <<":", BS>>
           t == build_tree_from_mft_records(records, volume_root_trim, volume_root_key,
                                            path, path_buf, shallow_dirs)
       IN result' = Some([ok |-> TRUE, root |-> t.root, file_count |-> t.file_count,
                          total_size |-> t.total_size])
    /\ pc' = "mft_done"
    /\ UNCHANGED <<path, path_buf, drive, mft, numbered, pos, shallow_dirs, n, progress,
                   counter, records, heap, events, load_vars, arg, ret>>

Next == ValidatePath \/ LoadMft \/ IterateFile \/ IterateDone \/ BuildTree

Spec == Init /\ [][Next]_vars

----------------------------------------------------------------------------
(* Specification SpecTop: scan_volume_mft_top_files *)

\* the order of Option<u64>: None before Some
option_lt(a, b) ==
    IF b = None THEN FALSE
    ELSE IF a = None THEN TRUE
    ELSE a[1] < b[1]

\* the order of the heap entries (size, path, modified)
entry_lt(x, y) ==
    IF x[1] # y[1] THEN x[1] < y[1]
    ELSE IF x[2] # y[2] THEN str_lt(x[2], y[2])
    ELSE option_lt(x[3], y[3])

\* the entry BinaryHeap<Reverse<_>>::pop removes from a non-empty heap: the
\* largest instead of the smallest
heap_peek_largest(h) ==
    CHOOSE x \in BagToSet(h) : \A y \in BagToSet(h) : y = x \/ entry_lt(y, x)

\* the entry BinaryHeap<Reverse<_>>::pop removes from a non-empty heap
heap_peek(h) ==
    CHOOSE x \in BagToSet(h) : \A y \in BagToSet(h) : y = x \/ entry_lt(x, y)

\* the pop loop run while heap.len() >= n
heap_trim_at_capacity(h, cap) ==
    IF BagCardinality(h) >= cap /\ BagCardinality(h) > 0
    THEN h (-) SetToBag({heap_peek(h)})
    ELSE h

\* heap.push(e); while heap.len() > n { heap.pop(); }
RECURSIVE heap_trim(_, _)
heap_trim(h, cap) ==
    IF BagCardinality(h) > cap THEN heap_trim(h (-) SetToBag({heap_peek(h)}), cap)
    ELSE h

heap_push(h, e) == h (+) SetToBag({e})

TopFileEntry(e) == [path |-> e[2], size |-> e[1], modified |-> e[3]]

\* the orders heap.into_iter() can yield the entries in
heap_into_iter(h) ==
    { s \in [1..BagCardinality(h) -> BagToSet(h)] :
        \A x \in BagToSet(h) : Cardinality({ i \in 1..BagCardinality(h) : s[i] = x }) = h[x] }

\* list.sort_by(|a, b| b.size.cmp(&a.size)): stable, by insertion from the left
RECURSIVE sort_insert(_, _)
sort_insert(sorted, e) ==
    IF sorted = <<>> THEN <<e>>
    ELSE LET last == sorted[Len(sorted)]
         IN IF last.size >= e.size THEN Append(sorted, e)
            ELSE Append(sort_insert(SubSeq(sorted, 1, Len(sorted) - 1), e), last)

sort_by_size_desc(list) ==
    ForLoop(LAMBDA sorted, i : sort_insert(sorted, list[i]), 1, Len(list), <<>>)

TopFile(name, size) == FileInfo(RawPath(DriveF, << name >>), size, FALSE, None)

TopAlphabet ==
    { TopFile(<<"a">>, 10),
      TopFile(<<"b">>, 50),
      FileInfo(RawPath(DriveF, << <<"c">> >>), 50, FALSE, Some(7)),
      FileInfo(RawPath(DriveF, << <<"D">> >>), 900, TRUE, None),
      FileInfo(RawPath(<<"G">>, << <<"q">> >>), 999, FALSE, None) }

\* end-to-end scenario 6 of the specification
TopScenario ==
    << TopFile(<<"a">>, 10), TopFile(<<"b">>, 50), TopFile(<<"c">>, 50),
       TopFile(<<"d">>, 7), TopFile(<<"e">>, 200), TopFile(<<"f">>, 3) >>

TopVolumes == SeqsUpTo(TopAlphabet, MaxTopRecs) \cup { TopScenario }

InitTop ==
    /\ pc = "top_start"
    /\ \E r \in Resolutions : path = r.path /\ path_buf = r.path_buf
    /\ n \in 0..MaxN
    /\ shallow_dirs = FALSE
    /\ progress = FALSE
    /\ drive = None /\ mft = <<>> /\ numbered = 0 /\ pos = 0 /\ counter = 0
    /\ records = <<>> /\ heap = EmptyBag /\ events = <<>> /\ NoForwarder /\ result = None
    /\ arg = None /\ ret = None

\* path validation and drive letter
TopValidatePath ==
    /\ pc = "top_start"
    /\ IF ~is_windows_volume_root(path_buf) \/ drive_letter_from_volume_root(path_buf) = None
       THEN /\ pc' = "top_err"
            /\ result' = Err("InvalidPath")
            /\ UNCHANGED drive
       ELSE /\ pc' = "top_open"
            /\ drive' = drive_letter_from_volume_root(path_buf)
            /\ UNCHANGED result
    /\ UNCHANGED <<path, path_buf, mft, numbered, pos, shallow_dirs, n, progress, counter,
                   records, heap, events, load_vars, arg, ret>>

\* Volume::new and Mft::new on one of the volumes: the MFT is loaded, or the scan fails
TopLoad(volumes) ==
    /\ pc = "top_open"
    /\ \/ \E v \in volumes :
             /\ mft' = v.files
             /\ numbered' = v.numbered
             /\ load' = [load EXCEPT !.res = Loaded]
             /\ pc' = "top_iterate"
             /\ UNCHANGED result
       \/ \E e \in NtfsReaderErrors :
             /\ load' = [load EXCEPT !.res = Failed(e)]
             /\ pc' = "top_err"
             /\ result' = Some(to_disk_analyzer_error(e))
             /\ UNCHANGED <<mft, numbered>>
    /\ UNCHANGED <<path, path_buf, drive, pos, shallow_dirs, n, progress, counter, records,
                   heap, events, chan, tx, fwd, arg, ret>>

TopLoadMft == TopLoad({ Listed(v) : v \in TopVolumes })

\* the iterate_files callback of scan_volume_mft_top_files on the next record
TopIterateFile ==
    /\ pc = "top_iterate"
    /\ pos < max_record
    /\ LET info == file_at(pos + 1)
           full_path == normalize_ntfs_path(info.path, drive[1])
           vol_trim_for_filter == drive[1] \o <<":">>
       IN IF info.is_directory \/ ~path_under_volume_ascii(full_path, vol_trim_for_filter)
          THEN UNCHANGED <<counter, events, heap>>
          ELSE /\ counter' = add_u64(counter, 1)
               /\ events' = report_accepted(events, progress, counter, full_path)
               /\ heap' = heap_trim(heap_push(heap, <<info.size, full_path, modified_of(info)>>), n)
    /\ pos' = pos + 1
    /\ UNCHANGED <<pc, path, path_buf, drive, mft, numbered, shallow_dirs, n, progress,
                   records, load_vars, result, arg, ret>>

\* iterate_files returns: the final progress event, and the heap becomes the
\* sorted list
TopFinish ==
    /\ pc = "top_iterate"
    /\ pos = max_record
    /\ events' = cb(events, progress, counter, path)
    /\ \E order \in heap_into_iter(heap) :
          result' = Some([ok |-> TRUE,
                          list |-> sort_by_size_desc([i \in 1..Len(order) |-> TopFileEntry(order[i])])])
    /\ pc' = "top_done"
    /\ UNCHANGED <<path, path_buf, drive, mft, numbered, pos, shallow_dirs, n, progress,
                   counter, records, heap, load_vars, arg, ret>>

NextTop == TopValidatePath \/ TopLoadMft \/ TopIterateFile \/ TopFinish

SpecTop == InitTop /\ [][NextTop]_vars

----------------------------------------------------------------------------
(* Specification SpecSizeMap: build_recursive_size_map applied to record    *)
(* lists.  Chunk sizes below PAR_CHUNK_SIZE stand for the record lists of   *)
(* more than PAR_CHUNK_SIZE records, which span several chunks.            *)

MapPaths ==
    { <<"F", ":", BS>>,
      <<"F", ":", BS, "a">>,
      <<"F", ":", BS, "a", BS, "b">>,
      <<"F", ":", BS, "a", BS, "b", BS>>,
      <<"F", ":", BS, "a", "b">> }

MapSizes == { 1, U64_MAX - 1 }

MapAlphabet ==
    { [full_path |-> p, size |-> sz, is_dir |-> FALSE, modified |-> None] :
        p \in MapPaths, sz \in MapSizes }

ChunkSizes == { 1, 2, PAR_CHUNK_SIZE }

InitSizeMap ==
    /\ Idle
    /\ pc = "map_call"
    /\ arg \in { [records |-> recs] : recs \in SeqsUpTo(MapAlphabet, MaxMapRecs) }
    /\ ret = None

BuildSizeMap ==
    /\ pc = "map_call"
    /\ \E chunk_size \in ChunkSizes :
          ret' = Some(build_recursive_size_map_chunked(arg.records, chunk_size))
    /\ pc' = "map_done"
    /\ UNCHANGED <<path, path_buf, drive, mft, numbered, pos, shallow_dirs, n, progress,
                   counter, records, heap, events, load_vars, result, arg>>

\* build_recursive_size_map as the thread pool runs it: some chunk size, some
\* grouping of the merges
BuildSizeMapParallel ==
    /\ pc = "map_call"
    /\ \E chunk_size \in ChunkSizes :
          /\ \E m \in build_recursive_size_map_results(arg.records, chunk_size) : ret' = Some(m)
          /\ arg' = [records |-> arg.records, chunk_size |-> chunk_size]
    /\ pc' = "map_par"
    /\ UNCHANGED <<path, path_buf, drive, mft, numbered, pos, shallow_dirs, n, progress,
                   counter, records, heap, events, load_vars, result>>

NextSizeMap == BuildSizeMap \/ BuildSizeMapParallel

SpecSizeMap == InitSizeMap /\ [][NextSizeMap]_vars

----------------------------------------------------------------------------
(* Specification SpecIndex: build_child_index and the tree built from its   *)
(* index, on record buffers as the enumeration leaves them, with the chunks *)
(* and the merges as the thread pool can arrange them.                      *)

IndexRecord(segs, size, is_dir) ==
    MftRecord(normalize_ntfs_path(RawPath(DriveF, segs), DriveF),
              FileInfo(RawPath(DriveF, segs), size, is_dir, None))

IndexAlphabet ==
    { IndexRecord(<<>>, 0, TRUE),
      IndexRecord(<< <<"a">> >>, 0, TRUE),
      IndexRecord(<< <<"a">>, <<"b">> >>, 2, FALSE),
      IndexRecord(<< <<"a">>, <<"c">> >>, 3, FALSE),
      IndexRecord(<< <<"b">> >>, 5, FALSE) }

\* the buffer of the wide volume: the root, a directory and WideCount files in it
WideRecords ==
    LET v == WideVolume(<< <<"d">> >>)
    IN [i \in 1..Len(v) |-> MftRecord(normalize_ntfs_path(v[i].path, DriveF), v[i])]

IndexRecordLists == SeqsUpTo(IndexAlphabet, MaxIndexRecs) \cup { WideRecords }

\* chunk sizes that split recs into MaxChunks chunks at most
IndexChunkSizes(recs) ==
    { c \in { 1, 2, WideChunk, PAR_CHUNK_SIZE } : (Len(recs) + c - 1) \div c <= MaxChunks }

InitIndex ==
    /\ Idle
    /\ pc = "idx_call"
    /\ arg \in { [records |-> recs] : recs \in IndexRecordLists }
    /\ ret = None

\* build_child_index as the thread pool runs it: some chunk size, some grouping
\* of the merges
BuildChildIndexParallel ==
    /\ pc = "idx_call"
    /\ \E chunk_size \in IndexChunkSizes(arg.records) :
          /\ \E idx \in build_child_index_results(arg.records, DriveF \o <<":">>, chunk_size) :
                ret' = Some([build_child_index(arg.records, DriveF \o <<":">>) EXCEPT !.index = idx])
          /\ arg' = [records |-> arg.records, chunk_size |-> chunk_size]
    /\ pc' = "idx_done"
    /\ UNCHANGED <<path, path_buf, drive, mft, numbered, pos, shallow_dirs, n, progress,
                   counter, records, heap, events, load_vars, result>>

\* the rest of build_tree_from_mft_records on that index
BuildTreeFromIndex ==
    /\ pc = "idx_done"
    /\ LET root_str == DriveF \o <<":", BS>>
           t == build_tree_from_index(ret[1], build_recursive_size_map(arg.records),
                                      DriveF \o <<":">>, root_str, root_str, root_str, FALSE)
       IN result' = Some([ok |-> TRUE, root |-> t.root, file_count |-> t.file_count,
                          total_size |-> t.total_size])
    /\ pc' = "idx_tree"
    /\ UNCHANGED <<path, path_buf, drive, mft, numbered, pos, shallow_dirs, n, progress,
                   counter, records, heap, events, load_vars, arg, ret>>

NextIndex == BuildChildIndexParallel \/ BuildTreeFromIndex

SpecIndex == InitIndex /\ [][NextIndex]_vars

----------------------------------------------------------------------------
(* Specification SpecProgress: both entry points with a progress callback.  *)
(* In scan_volume_mft the MFT is loaded while a forwarder thread turns the  *)
(* loader's (bytes, total) reports into progress events.                    *)

\* records the volume filter has to tell apart: the root, a lower-case drive
\* letter, another drive in both spellings, a \\?\ path of a lower-case drive, a
\* two-letter "drive"
FilterVolume ==
    << RootInfo,
       FileInfo(<<"f", ":", BS, "a">>, 3, FALSE, Some(5)),
       FileInfo(RawPath(<<"G">>, << <<"q">> >>), 9, FALSE, None),
       FileInfo(<<"G", ":", BS, "q">>, 8, FALSE, None),
       FileInfo(<<BS, BS, "?", BS, "f", ":", "x">>, 4, FALSE, None),
       FileInfo(<<"F", "F", ":", BS, "q">>, 6, FALSE, None),
       Dir(<< <<"d">> >>, 0),
       File(<< <<"d">>, <<"x">> >>, 10) >>

\* the volumes of the tree mode: small ones, and one with a numbered file beyond
\* PROGRESS_EVERY accepted records
ProgressVolumes ==
    { Listed(<<>>), Listed(FilterVolume) } \cup { Listed(v) : v \in ScenarioVolumes }

LargeVolume == Volume(<<>>, PROGRESS_EVERY + ProgressExtra)

\* the volumes of the top-N mode: small ones, one of exactly PROGRESS_EVERY
\* files and one beyond ProgressRounds times as many
TopProgressVolumes ==
    { Listed(FilterVolume), Listed(TopScenario),
      Volume(<<>>, PROGRESS_EVERY),
      Volume(<<>>, ProgressRounds * PROGRESS_EVERY + ProgressExtra) }

\* the (bytes, total) reports of the loader: nothing known, half, beyond the
\* total; byte counts of an MFT, for which 100 * bytes fits a u64
LoadMsgs == { <<0, 0>>, <<1, 2>>, <<3, 2>> }

LoadedVolume(v) == Some([ok |-> TRUE, volume |-> v])

\* what Mft::new_with_progress does: the reports it makes and what it returns;
\* the large volume is loaded with one report
LoadCases ==
    { [msgs |-> m, sent |-> 0, res |-> LoadedVolume(v)] :
        m \in SeqsUpTo(LoadMsgs, MaxLoadMsgs), v \in ProgressVolumes }
    \cup { [msgs |-> m, sent |-> 0, res |-> Failed(e)] :
        m \in SeqsUpTo(LoadMsgs, MaxLoadMsgs), e \in NtfsReaderErrors }
    \cup { [msgs |-> << <<1, 2>> >>, sent |-> 0, res |-> LoadedVolume(LargeVolume)] }

InitProgress ==
    /\ pc \in { "mft_start", "top_start" }
    /\ \E r \in Resolutions : path = r.path /\ path_buf = r.path_buf
    /\ n = (IF pc = "top_start" THEN MaxN ELSE 0)
    /\ shallow_dirs = FALSE
    /\ progress = TRUE
    /\ drive = None /\ mft = <<>> /\ numbered = 0 /\ pos = 0 /\ counter = 0
    /\ records = <<>> /\ heap = EmptyBag /\ events = <<>> /\ NoForwarder /\ result = None
    /\ arg = None /\ ret = None

\* Volume::new, then the channel and the forwarder thread; Mft::new_with_progress
\* starts
SpawnForwarder ==
    /\ pc = "mft_open"
    /\ progress
    /\ \/ \E c \in LoadCases :
             /\ load' = c
             /\ chan' = <<>>
             /\ tx' = TRUE
             /\ fwd' = "recv"
             /\ pc' = "mft_loading"
             /\ UNCHANGED result
       \/ \E e \in NtfsReaderErrors :
             /\ load' = [load EXCEPT !.res = Failed(e)]
             /\ pc' = "mft_err"
             /\ result' = Some(to_disk_analyzer_error(e))
             /\ UNCHANGED <<chan, tx, fwd>>
    /\ UNCHANGED <<path, path_buf, drive, mft, numbered, pos, shallow_dirs, n, progress,
                   counter, records, heap, events, arg, ret>>

\* the loader calls load_progress(bytes, total): tx.send((bytes, total)), whose
\* error (no receiver) is dropped
LoadProgress ==
    /\ pc = "mft_loading"
    /\ load.sent < Len(load.msgs)
    /\ chan' = IF fwd = "recv" THEN Append(chan, load.msgs[load.sent + 1]) ELSE chan
    /\ load' = [load EXCEPT !.sent = @ + 1]
    /\ UNCHANGED <<pc, path, path_buf, drive, mft, numbered, pos, shallow_dirs, n, progress,
                   counter, records, heap, events, tx, fwd, result, arg, ret>>

\* Mft::new_with_progress returns mft_res
LoadReturn ==
    /\ pc = "mft_loading"
    /\ load.sent = Len(load.msgs)
    /\ pc' = "mft_drop"
    /\ UNCHANGED <<path, path_buf, drive, mft, numbered, pos, shallow_dirs, n, progress,
                   counter, records, heap, events, load_vars, result, arg, ret>>

\* DropSender that keeps the Sender alive
DropSender_keeps_sender ==
    /\ pc = "mft_drop"
    /\ pc' = "mft_join"
    /\ UNCHANGED <<path, path_buf, drive, mft, numbered, pos, shallow_dirs, n, progress,
                   counter, records, heap, events, load_vars, result, arg, ret>>

\* drop(load_progress): the Sender goes with the closure
DropSender ==
    /\ pc = "mft_drop"
    /\ tx' = FALSE
    /\ pc' = "mft_join"
    /\ UNCHANGED <<path, path_buf, drive, mft, numbered, pos, shallow_dirs, n, progress,
                   counter, records, heap, events, load, chan, fwd, result, arg, ret>>

\* the forwarder thread: rx.recv() is Ok((bytes, total)), the callback is invoked
Forward ==
    /\ fwd = "recv"
    /\ chan # <<>>
    /\ events' = Append(events,
                        Event("forwarder", 0, LoadingMsg(load_pct(Head(chan)[1], Head(chan)[2]))))
    /\ chan' = Tail(chan)
    /\ UNCHANGED <<pc, path, path_buf, drive, mft, numbered, pos, shallow_dirs, n, progress,
                   counter, records, heap, load, tx, fwd, result, arg, ret>>

\* the forwarder thread: rx.recv() is Err (no message, no Sender), the thread ends
ForwarderExit ==
    /\ fwd = "recv"
    /\ chan = <<>>
    /\ ~tx
    /\ fwd' = "done"
    /\ UNCHANGED <<pc, path, path_buf, drive, mft, numbered, pos, shallow_dirs, n, progress,
                   counter, records, heap, events, load, chan, tx, result, arg, ret>>

\* Join that does not wait for the forwarder thread
Join_without_wait ==
    /\ pc = "mft_join"
    /\ IF load.res[1].ok
       THEN /\ mft' = load.res[1].volume.files
            /\ numbered' = load.res[1].volume.numbered
            /\ load' = [load EXCEPT !.res = Loaded]
            /\ pc' = "mft_iterate"
            /\ UNCHANGED result
       ELSE /\ pc' = "mft_err"
            /\ result' = Some(to_disk_analyzer_error(load.res[1].err))
            /\ UNCHANGED <<mft, numbered, load>>
    /\ UNCHANGED <<path, path_buf, drive, pos, shallow_dirs, n, progress, counter, records,
                   heap, events, chan, tx, fwd, arg, ret>>

\* join_handle.join() returns; mft_res? either is the MFT or ends the scan
Join ==
    /\ pc = "mft_join"
    /\ fwd = "done"
    /\ IF load.res[1].ok
       THEN /\ mft' = load.res[1].volume.files
            /\ numbered' = load.res[1].volume.numbered
            /\ load' = [load EXCEPT !.res = Loaded]
            /\ pc' = "mft_iterate"
            /\ UNCHANGED result
       ELSE /\ pc' = "mft_err"
            /\ result' = Some(to_disk_analyzer_error(load.res[1].err))
            /\ UNCHANGED <<mft, numbered, load>>
    /\ UNCHANGED <<path, path_buf, drive, pos, shallow_dirs, n, progress, counter, records,
                   heap, events, chan, tx, fwd, arg, ret>>

TopLoadMftP == TopLoad(TopProgressVolumes)

NextProgress ==
    \/ ValidatePath \/ SpawnForwarder \/ LoadProgress \/ LoadReturn \/ DropSender
    \/ Forward \/ ForwarderExit \/ Join \/ IterateFile \/ IterateDone \/ BuildTree
    \/ TopValidatePath \/ TopLoadMftP \/ TopIterateFile \/ TopFinish

SpecProgress == InitProgress /\ [][NextProgress]_vars

\* the steps of the scan thread from the start of the load to the end of join,
\* and the steps of the forwarder thread
LoadSteps == LoadProgress \/ LoadReturn \/ DropSender \/ Join
ForwarderSteps == Forward \/ ForwarderExit

\* SpecProgress with both threads scheduled again and again and a loader that
\* returns
SpecProgressFair == SpecProgress /\ WF_vars(LoadSteps) /\ WF_vars(ForwarderSteps)

----------------------------------------------------------------------------
(* Specification SpecRoot: the path validation of both entry points on the  *)
(* strings a resolved path can be.                                          *)

RootDevices == { <<>>, <<BS, BS, "?", BS>>, <<BS, BS, ".", BS>> }

RootBodies ==
    { <<"F", ":">>, <<"c", ":">>, <<"1", ":">>, <<"F">>, <<"F", ";">>, <<"F", "F", ":">>,
      <<":">>, <<"F", ":", "x">>, <<>> }

RootTrails == { <<>>, <<BS>>, <<BS, BS>>, <<"/">>, <<BS, "d">> }

RootStrings == { dev \o body \o trail : dev \in RootDevices, body \in RootBodies, trail \in RootTrails }

InitRoot ==
    /\ pc \in { "mft_start", "top_start" }
    /\ path_buf \in RootStrings
    /\ path = path_buf
    /\ progress \in BOOLEAN
    /\ n = (IF pc = "top_start" THEN MaxN ELSE 0)
    /\ shallow_dirs = FALSE
    /\ drive = None /\ mft = <<>> /\ numbered = 0 /\ pos = 0 /\ counter = 0
    /\ records = <<>> /\ heap = EmptyBag /\ events = <<>> /\ NoForwarder /\ result = None
    /\ arg = None /\ ret = None

NextRoot == ValidatePath \/ TopValidatePath

SpecRoot == InitRoot /\ [][NextRoot]_vars

----------------------------------------------------------------------------
(* Claims about normalize_ntfs_path (specification SpecNorm) *)

\* the canonical form X:\seg\seg... of drive d and segments segs; X:\ for the root
Canonical(d, segs) ==
    IF segs = <<>> THEN d \o <<":", BS>>
    ELSE d \o <<":">> \o JoinSegs(segs, [i \in 1..Len(segs) |-> BS])

C11_NormalizeIdempotent ==
    pc = "norm_again" => ret = Some(arg.path_str)

----------------------------------------------------------------------------
(* Claims about the result tree of scan_volume_mft (specification Spec) *)

TreeDone == pc = "mft_done"
Root == result[1].root

\* every node of the tree under node, with its depth
RECURSIVE NodesAt(_, _)
NodesAt(node, depth) ==
    { [node |-> node, depth |-> depth] }
        \cup UNION { NodesAt(node.children[i], depth + 1) : i \in 1..Len(node.children) }

TreeNodes == NodesAt(Root, 0)

\* the positions of the nodes of the tree under node, as paths of child numbers
RECURSIVE Positions(_)
Positions(node) ==
    { <<>> } \cup UNION { { <<i>> \o q : q \in Positions(node.children[i]) } :
                          i \in 1..Len(node.children) }

RecordSet == { records[i] : i \in 1..Len(records) }

\* the records a non-root node with this path can come from
RecordsOf(p) == { r \in RecordSet : r.full_path = p }

\* the number of path segments below the volume root
DepthOfPath(p) == Cardinality({ i \in 1..Len(p) : p[i] = BS })

HasShallowName(r) ==
    \E s \in SHALLOW_DIR_NAMES : eq_ignore_ascii_case(s, rsplit_next(r.full_path, BS))

Sum(f(_), lo, hi) == ForLoop(LAMBDA acc, i : acc + f(i), lo, hi, 0)

\* the sum of the sizes of the file records beneath the directory path p
FileSizesBeneath(p) ==
    Sum(LAMBDA i : IF ~records[i].is_dir /\ starts_with(records[i].full_path, Append(p, BS))
                   THEN records[i].size ELSE 0, 1, Len(records))

AllFileSizes == Sum(LAMBDA i : IF records[i].is_dir THEN 0 ELSE records[i].size, 1, Len(records))

ChildSizes(node) == Sum(LAMBDA i : node.children[i].size, 1, Len(node.children))

\* C2: a node materialised from a file record at depth 1..MAX_DEPTH is a file
\* node: is_dir = false, no children, size = the record's own size.
C2_FileNodesKeepOwnSize ==
    TreeDone =>
        \A e \in TreeNodes :
            (e.depth \in 1..MAX_DEPTH /\ \E r \in RecordsOf(e.node.path) : ~r.is_dir)
                => /\ e.node.is_dir = FALSE
                   /\ e.node.children = <<>>
                   /\ \E r \in RecordsOf(e.node.path) : ~r.is_dir /\ r.size = e.node.size

\* the record sets C3 speaks of: directory records of size 0, nothing collapsed,
\* at most MAX_CHILDREN_PER_DIR records, nothing deeper than MAX_DEPTH
C3_Pre ==
    /\ \A r \in RecordSet : r.is_dir => r.size = 0
    /\ ~shallow_dirs
    /\ Len(records) <= MAX_CHILDREN_PER_DIR
    /\ \A r \in RecordSet : DepthOfPath(r.full_path) <= MAX_DEPTH

\* C3: under C3_Pre every directory node's size, the root's size and total_size
\* are the sum of the sizes of the file records beneath.
C3_NestedAggregation ==
    (TreeDone /\ C3_Pre) =>
        /\ Root.size = AllFileSizes
        /\ result[1].total_size = AllFileSizes
        /\ \A e \in TreeNodes :
              (e.depth >= 1 /\ \E r \in RecordsOf(e.node.path) : r.is_dir)
                  => e.node.size = FileSizesBeneath(e.node.path)

\* is the node one the caps or the shallow policy cut short
Truncated(e) ==
    \/ e.depth > MAX_DEPTH
    \/ Len(e.node.children) >= MAX_CHILDREN_PER_DIR
    \/ (e.depth >= 1 /\ shallow_dirs /\ \E r \in RecordsOf(e.node.path) : HasShallowName(r))

\* the root record's own size, 0 without a root record
RootOwnSize == build_child_index(records, drive[1] \o <<":">>).root_size

\* C4 as stated: a directory node that is not truncated has the size of its
\* children plus its own record size.
C4_SizeConservationOwn ==
    TreeDone =>
        /\ Root.size = ChildSizes(Root) + RootOwnSize
        /\ \A e \in TreeNodes :
              (e.depth >= 1 /\ e.node.is_dir /\ ~Truncated(e)
                    /\ \E r \in RecordsOf(e.node.path) : r.is_dir)
                  => \E r \in RecordsOf(e.node.path) :
                        r.is_dir /\ e.node.size = ChildSizes(e.node) + r.size

\* C4 amended: a directory node that is not truncated has the size of its
\* children; only the root adds its own record size.
C4_SizeConservation ==
    TreeDone =>
        /\ Root.size = ChildSizes(Root) + RootOwnSize
        /\ \A e \in TreeNodes :
              (e.depth >= 1 /\ e.node.is_dir /\ ~Truncated(e))
                  => e.node.size = ChildSizes(e.node)

C4_Witness ==
    /\ TreeDone
    /\ \E e \in TreeNodes :
          /\ e.depth = 1
          /\ Len(e.node.children) = 1
          /\ \E r \in RecordsOf(e.node.path) : r.is_dir /\ r.size > 0
          /\ e.node.children[1].size > 0
          /\ e.node.size = e.node.children[1].size

\* C5: every node, the root included, has at most MAX_CHILDREN_PER_DIR children.
C5_FanOutCap ==
    TreeDone => \A e \in TreeNodes : Len(e.node.children) <= MAX_CHILDREN_PER_DIR

\* C6 as stated: no node lies deeper than MAX_DEPTH.
C6_DepthCap ==
    TreeDone => \A e \in TreeNodes : e.depth <= MAX_DEPTH

\* C6 amended: no node lies deeper than MAX_DEPTH + 1, and the nodes at depth
\* MAX_DEPTH + 1 are leaves.
C6_DepthCapPlusOne ==
    TreeDone =>
        \A e \in TreeNodes :
            /\ e.depth <= MAX_DEPTH + 1
            /\ e.depth = MAX_DEPTH + 1 => e.node.children = <<>>

C6_Witness ==
    /\ TreeDone
    /\ \E r \in RecordSet : DepthOfPath(r.full_path) = MAX_DEPTH + 2
    /\ \E e \in TreeNodes : e.depth = MAX_DEPTH + 1 /\ e.node.children = <<>>
    /\ \A e \in TreeNodes : DepthOfPath(e.node.path) <= MAX_DEPTH + 1

\* C7: with shallow_dirs, a node of a directory record whose name is in
\* SHALLOW_DIR_NAMES (ASCII case-insensitive) is a leaf whose size is its entry
\* of the recursive size map (the record's size without an entry), none of its
\* descendants is in the tree, and it counts as one node.
C7_ShallowCollapse ==
    (TreeDone /\ shallow_dirs) =>
        \A e \in TreeNodes : \A r \in RecordsOf(e.node.path) :
            (e.depth >= 1 /\ r.is_dir /\ HasShallowName(r))
                => /\ e.node.children = <<>>
                   /\ e.node.is_dir
                   /\ LET m == build_recursive_size_map(records)
                          k == trim_end_matches(r.full_path, BS)
                      IN e.node.size = IF k \in DOMAIN m THEN m[k] ELSE r.size
                   /\ \A d \in TreeNodes :
                         d.depth >= 1 => ~starts_with(d.node.path, Append(e.node.path, BS))
                   /\ Cardinality(Positions(e.node)) = 1

C7_Witness ==
    /\ TreeDone /\ shallow_dirs
    /\ \E r \in RecordSet : r.full_path = <<"F", ":", BS, "d", BS>> \o WIN \o <<BS, "b">>
    /\ \E e \in TreeNodes :
          /\ e.depth = 2
          /\ e.node.path = <<"F", ":", BS, "d", BS>> \o WIN
          /\ e.node.size = 9
          /\ e.node.children = <<>>

\* C8: file_count is the number of nodes of the result tree, the root included.
C8_FileCountIsNodeCount ==
    TreeDone => result[1].file_count = Cardinality(Positions(Root))

C8_Witness ==
    /\ TreeDone
    /\ result[1].file_count = 4
    /\ \E e \in TreeNodes : e.depth = 3

----------------------------------------------------------------------------
(* Claims about build_recursive_size_map (specification SpecSizeMap) *)

\* the keys a record adds to: its trimmed path and every non-empty prefix of it
\* that ends before a backslash
KeysOf(r) ==
    LET p == trim_end_matches(r.full_path, BS)
    IN IF p = <<>> THEN {}
       ELSE { p } \cup { SubSeq(p, 1, j - 1) : j \in { i \in 2..Len(p) : p[i] = BS } }

\* C9: the recursive size map has exactly the trimmed paths of the records and
\* their non-empty ancestors as keys, and the value of a key is the sum, capped
\* at U64_MAX, of the sizes of the records at or beneath it; so it is at least
\* the size of each of them.
C9_RecursiveSizeMap ==
    pc = "map_done" =>
        LET recs == arg.records
            m == ret[1]
            total(k) == Sum(LAMBDA i : IF k \in KeysOf(recs[i]) THEN recs[i].size ELSE 0,
                            1, Len(recs))
        IN /\ DOMAIN m = UNION { KeysOf(recs[i]) : i \in 1..Len(recs) }
           /\ \A k \in DOMAIN m : m[k] = Min(U64_MAX, total(k))
           /\ \A i \in 1..Len(recs) : \A k \in KeysOf(recs[i]) : m[k] >= recs[i].size

C9_Witness ==
    /\ pc = "map_done"
    /\ Len(arg.records) = 3
    /\ DOMAIN ret[1] = { <<"F", ":">>, <<"F", ":", BS, "a">>, <<"F", ":", BS, "a", BS, "b">>,
                         <<"F", ":", BS, "a", "b">> }
    /\ ret[1][<<"F", ":">>] = U64_MAX
    /\ ret[1][<<"F", ":", BS, "a">>] = U64_MAX
    /\ ret[1][<<"F", ":", BS, "a", BS, "b">>] = U64_MAX - 1
    /\ ret[1][<<"F", ":", BS, "a", "b">>] = 1

\* C22: the recursive size map does not depend on the chunks nor on the
\* grouping of the merges: whatever the chunk size and the merge tree, it has
\* the keys and the values, saturated ones included, of one sequential pass
\* over the records.
C22_SizeMapChunkIndependent ==
    pc = "map_par" => ret[1] = size_map_of_chunk(arg.records)

\* three records in three chunks, merged in either grouping: the sizes of two
\* saturate at the common ancestors
C22_Witness ==
    /\ pc = "map_par"
    /\ arg.chunk_size = 1
    /\ Len(arg.records) = 3
    /\ arg.records[1].size = U64_MAX - 1 /\ arg.records[2].size = 1 /\ arg.records[3].size = 1
    /\ arg.records[1].full_path = <<"F", ":", BS, "a", BS, "b">>
    /\ arg.records[2].full_path = <<"F", ":", BS, "a">>
    /\ arg.records[3].full_path = <<"F", ":", BS, "a", "b">>
    /\ ret[1][<<"F", ":">>] = U64_MAX
    /\ ret[1][<<"F", ":", BS, "a">>] = U64_MAX

----------------------------------------------------------------------------
(* Claims about scan_volume_mft_top_files (specification SpecTop) *)

\* the accepted non-directory records of the stream, as list entries
AcceptedFiles ==
    LET under(info) == path_under_volume_ascii(normalize_ntfs_path(info.path, drive[1]),
                                               drive[1] \o <<":">>)
        files == SelectSeq(mft, LAMBDA info : ~info.is_directory /\ under(info))
    IN [i \in 1..Len(files) |->
            [path |-> normalize_ntfs_path(files[i].path, drive[1]), size |-> files[i].size,
             modified |-> modified_of(files[i])]]

Occurrences(seq, x) == Cardinality({ i \in 1..Len(seq) : seq[i] = x })

\* C1: with K >= n accepted non-directory records the list has n entries, each
\* an accepted non-directory record, in non-increasing order of size, and every
\* such record larger than the last entry is in the list.
C1_TopFiles ==
    (pc = "top_done" /\ Len(AcceptedFiles) >= n) =>
        LET list == result[1].list
            files == AcceptedFiles
        IN /\ Len(list) = n
           /\ \A i \in 1..Len(list) : Occurrences(list, list[i]) <= Occurrences(files, list[i])
           /\ \A i \in 1..(Len(list) - 1) : list[i].size >= list[i + 1].size
           /\ \A j \in 1..Len(files) :
                 (n > 0 /\ files[j].size > list[n].size)
                     => Occurrences(list, files[j]) = Occurrences(files, files[j])

C1_Witness ==
    /\ pc = "top_done"
    /\ n = 2
    /\ Len(AcceptedFiles) = 3
    /\ \E i \in 1..Len(mft) : mft[i].is_directory /\ mft[i].size > result[1].list[1].size
    /\ result[1].list[1].size = 50
    /\ result[1].list[2].size = 50
    /\ AcceptedFiles[1].size = 50 /\ AcceptedFiles[2].size = 10

----------------------------------------------------------------------------
(* Claims about the entry points with a progress callback (SpecProgress)    *)

\* a and b are the same character or the two cases of one ASCII letter
SameAsciiLetter(a, b) ==
    \/ a = b
    \/ \E i \in 1..Len(UpperLetters) : {a, b} = {UpperLetters[i], LowerLetters[i]}

\* p is X: or starts with X:\ , X compared without regard to ASCII case
UnderVolume(p, X) ==
    /\ Len(p) >= 2
    /\ SameAsciiLetter(p[1], X[1])
    /\ p[2] = ":"
    /\ (Len(p) = 2 \/ p[3] = BS)

\* the iterate_files callback has handled one more record
IterateStep == pc \in { "mft_iterate", "top_iterate" } /\ pos' = pos + 1

----------------------------------------------------------------------------
(* Claims about path validation (specification SpecRoot) *)

AsciiLetters == { UpperLetters[i] : i \in 1..Len(UpperLetters) } \cup { LowerLetters[i] : i \in 1..Len(LowerLetters) }

\* the upper-case letter of the ASCII letter X
UpperOf(X) ==
    IF \E i \in 1..Len(LowerLetters) : LowerLetters[i] = X
    THEN UpperLetters[CHOOSE i \in 1..Len(LowerLetters) : LowerLetters[i] = X]
    ELSE X

Backslashes(k) == [i \in 1..k |-> BS]

\* s is X: or \\?\X: followed by at most `most` backslashes, X an ASCII letter
RootForm(s, most) ==
    \E X \in AsciiLetters, dev \in { <<>>, <<BS, BS, "?", BS>> }, k \in 0..most :
        s = dev \o <<X, ":">> \o Backslashes(k)

\* the letter of a string of that form
RootLetter(s) == IF s[1] = BS THEN s[5] ELSE s[1]

Validated == pc \in { "mft_err", "mft_open", "top_err", "top_open" }

\* the validation step has decided as for a volume root of the form `form`
ValidatedAs(form) ==
    IF form
    THEN /\ pc \in { "mft_open", "top_open" }
         /\ result = None
         /\ drive = Some(<<UpperOf(RootLetter(path_buf))>>)
    ELSE /\ pc \in { "mft_err", "top_err" }
         /\ result = Err("InvalidPath")
         /\ events = <<>>
         /\ NoForwarder
         /\ drive = None

\* C13 as stated: a resolved path is taken for a volume root exactly when it is
\* X: or \\?\X: with at most one trailing backslash; any other path fails with
\* InvalidPath with no volume opened and no event emitted, and the drive letter
\* is the upper case of X.
C13_RootForm == Validated => ValidatedAs(RootForm(path_buf, 1))

\* C13, amended: a resolved path is taken for a volume root exactly when it is
\* X: or \\?\X: followed by any number of trailing backslashes; any other path
\* fails with InvalidPath with no volume opened and no event emitted, and the
\* drive letter is the upper case of X.
C13_RootFormAnyTrail == Validated => ValidatedAs(RootForm(path_buf, Len(path_buf)))

\* a path that is not a volume root has been refused by the tree mode with a
\* callback, which would have had its first event right after
C13_Witness ==
    /\ pc = "mft_err"
    /\ progress
    /\ path_buf = <<BS, BS, "?", BS, "F", ":", BS, "d">>
    /\ result = Err("InvalidPath")

----------------------------------------------------------------------------
(* Claims about failures and phases (specification SpecProgress) *)

ScanFailed == pc \in { "mft_err", "top_err" }

IsLoadingEvent(e) ==
    /\ Len(e.msg) > Len(LoadingPrefix)
    /\ SubSeq(e.msg, 1, Len(LoadingPrefix)) = LoadingPrefix

ErrorKind(r) == <<r.kind, IF "io_kind" \in DOMAIN r THEN r.io_kind ELSE "">>

\* C15: the error returned after a failed volume open or MFT load has a kind
\* that tells its cause; no other cause among privileges, I/O and MFT structure
\* is given the same kind.
C15_ElevationKindDistinct ==
    (ScanFailed /\ load.res # None /\ ~load.res[1].ok) =>
        \A e \in NtfsReaderErrors \ { load.res[1].err } :
            ErrorKind(result[1]) # ErrorKind(to_disk_analyzer_error(e))

\* the events so far are the opening event and MFT-load events
OnlyLoadPhaseEvents ==
    \A i \in 1..Len(events) :
        events[i].count = 0 /\ (events[i].msg = OpeningMsg \/ IsLoadingEvent(events[i]))

\* C16: phase ordering in scan_volume_mft. A record is enumerated only when the
\* MFT load has returned and the forwarder thread has been joined, so that a
\* "Loading MFT" event is delivered only while no enumeration event has been;
\* the tree is built only when every record has been enumerated, and from then
\* on the record buffer does not change.
C16_PhaseOrdering ==
    [][/\ (pc = "mft_iterate" /\ pos' # pos) =>
             /\ load.res = Loaded
             /\ fwd \in { "none", "done" }
             /\ chan = <<>> /\ ~tx
       /\ (Len(events') > Len(events) /\ IsLoadingEvent(events'[Len(events')])) =>
             /\ OnlyLoadPhaseEvents
             /\ pos = 0 /\ records = <<>>
       /\ pc = "mft_build" => pos = max_record
       /\ pc \in { "mft_build", "mft_done" } => records' = records /\ pos' = pos]_vars

\* a scan with a callback is done: two load events, then the records of the
\* filter volume and the final event of the enumeration, then the tree
C16_Witness ==
    /\ pc = "mft_done"
    /\ result[1].ok
    /\ mft = FilterVolume
    /\ Len(events) = 4
    /\ IsLoadingEvent(events[2]) /\ IsLoadingEvent(events[3])
    /\ events[4].count = Len(records)

\* the positions in events of the events of the enumeration: those of the scan
\* thread but for the opening event
EnumPositions == { i \in 1..Len(events) : events[i].thread = "scan" /\ events[i].msg # OpeningMsg }

\* iterate_files has returned, the final event has been emitted
Enumerated == pc \in { "mft_build", "mft_done", "top_done" }

\* the position of the final event
FinalPosition == IF Enumerated /\ progress THEN Len(events) ELSE 0

\* C17: within each phase the counts of successive events do not decrease: the
\* events of the MFT load carry 0, the events of the enumeration carry strictly
\* increasing counts, and the final event carries at least every count before it.
C17_MonotoneCounts ==
    /\ \A i \in 1..Len(events) :
          (events[i].thread = "forwarder" \/ IsLoadingEvent(events[i])) => events[i].count = 0
    /\ \A i, j \in EnumPositions :
          i < j => IF j = FinalPosition
                   THEN events[i].count <= events[j].count
                   ELSE events[i].count < events[j].count

\* the top-N scan of the largest volume is done: two events of the enumeration,
\* then the final event
C17_Witness ==
    /\ pc = "top_done"
    /\ Len(events) = ProgressRounds + 1
    /\ events[1].count < events[2].count
    /\ events[2].count <= events[Len(events)].count

\* the events of the enumeration in the order of their emission
RECURSIVE EnumEventsFrom(_)
EnumEventsFrom(i) ==
    IF i > Len(events) THEN <<>>
    ELSE IF i \in EnumPositions THEN <<events[i]>> \o EnumEventsFrom(i + 1)
    ELSE EnumEventsFrom(i + 1)

\* the path of the c-th accepted record: the c-th of the buffer in tree mode,
\* the c-th file of a volume of numbered files in top-N mode
AcceptedPath(c) ==
    IF pc \in { "mft_iterate", "mft_build", "mft_done" }
    THEN records[c].full_path
    ELSE normalize_ntfs_path(file_at(c).path, drive[1])

\* the string the final event carries for the volume root: volume_root_str in
\* tree mode, the path as given in top-N mode
FinalMsg == IF pc \in { "mft_build", "mft_done" } THEN volume_root_str(path_buf) ELSE path

\* C18: enumeration progress. With a callback, one event per PROGRESS_EVERY
\* accepted records has been emitted, the k-th carrying the running count
\* k * PROGRESS_EVERY and the path of the record accepted last at that count;
\* once iteration has ended exactly one final event follows them, carrying the
\* final count and the volume root string; with fewer than PROGRESS_EVERY
\* accepted records the final event is the only one.
C18_EnumerationEvents ==
    (progress /\ pc \in { "mft_iterate", "mft_build", "mft_done", "top_iterate", "top_done" }) =>
        LET evs == EnumEventsFrom(1)
            per_record == counter \div PROGRESS_EVERY
        IN /\ Len(evs) = per_record + (IF Enumerated THEN 1 ELSE 0)
           /\ \A k \in 1..Min(per_record, Len(evs)) :
                 /\ evs[k].count = k * PROGRESS_EVERY
                 /\ (pc \in { "top_iterate", "top_done" } => mft = <<>>)
                       => evs[k].msg = AcceptedPath(k * PROGRESS_EVERY)
           /\ (Enumerated /\ evs # <<>>) =>
                 /\ evs[Len(evs)].count = counter
                 /\ evs[Len(evs)].msg = FinalMsg

----------------------------------------------------------------------------
(* Claims about the forwarder thread (specification SpecProgressFair) *)

\* the load with a forwarder thread is over: the scan thread is past join
PastJoin == fwd # "none" /\ pc \in { "mft_iterate", "mft_build", "mft_done", "mft_err" }

\* C19: forwarder lifecycle. In scan_volume_mft with a callback the Sender is
\* dropped only after the load has returned, the forwarder thread ends only
\* when the Sender is gone and the channel is empty, the scan thread goes on to
\* the enumeration or returns the load's error only when the forwarder has
\* ended, and every load that has started gets there, whatever the load returns.
C19_ForwarderLifecycle ==
    /\ [](pc \in { "mft_loading", "mft_drop" } => tx /\ fwd = "recv")
    /\ [](fwd = "done" => ~tx /\ chan = <<>>)
    /\ [](PastJoin => fwd = "done")
    /\ (pc = "mft_loading" ~> PastJoin)

\* a load that failed for lack of privileges after one report: the forwarder
\* has delivered it and ended, and join has returned
C19_Witness ==
    /\ pc = "mft_err"
    /\ fwd = "done"
    /\ ~tx
    /\ load.res = Failed("ElevationError")
    /\ load.sent = 1
    /\ Len(events) = 2

\* the events the forwarder thread has delivered, in the order of delivery
RECURSIVE ForwardedFrom(_)
ForwardedFrom(i) ==
    IF i > Len(events) THEN <<>>
    ELSE IF events[i].thread = "forwarder" THEN <<events[i]>> \o ForwardedFrom(i + 1)
    ELSE ForwardedFrom(i + 1)

\* min(100, floor(100 * bytes / total)), 0 when total is 0
Percent(bytes, total) ==
    IF total = 0 THEN 0
    ELSE IF (100 * bytes) \div total > 100 THEN 100
    ELSE (100 * bytes) \div total

\* the decimal numeral of a number of 0..100
Numeral(P) ==
    IF P = 100 THEN <<"1", "0", "0">>
    ELSE IF P >= 10 THEN <<Digits[(P \div 10) + 1], Digits[(P % 10) + 1]>>
    ELSE <<Digits[P + 1]>>

\* C20: every (bytes, total) message the loader has sent is either still in the
\* channel or has been delivered to the callback, once and in the order sent,
\* as count 0 with "[scan:mft] Loading MFT P%", P = min(100, floor(100 * bytes /
\* total)) or 0 when total = 0; when join has returned, all have been delivered.
C20_LoadMessagesDelivered ==
    fwd # "none" =>
        LET delivered == ForwardedFrom(1)
        IN /\ Len(delivered) + Len(chan) = load.sent
           /\ chan = SubSeq(load.msgs, Len(delivered) + 1, load.sent)
           /\ \A i \in 1..Len(delivered) :
                 LET P == Percent(load.msgs[i][1], load.msgs[i][2])
                 IN /\ P \in 0..100
                    /\ delivered[i].count = 0
                    /\ delivered[i].msg = LoadingPrefix \o Numeral(P) \o <<"%">>
           /\ PastJoin => Len(delivered) = Len(load.msgs)

\* join has returned after a load of two reports, one beyond the total and one
\* without a total: 100% and 0% have been delivered in that order
C20_Witness ==
    /\ pc = "mft_iterate"
    /\ fwd = "done"
    /\ load.msgs = << <<3, 2>>, <<0, 0>> >>
    /\ Len(events) = 3
    /\ events[2].msg = LoadingPrefix \o <<"1", "0", "0", "%">>
    /\ events[3].msg = LoadingPrefix \o <<"0", "%">>

\* a capacity the reports of one load exceed; the loads of the model make up
\* to MaxLoadMsgs reports
ChannelCapacity == MaxLoadMsgs - 1

\* C21: the progress channel is bounded. At every point of every interleaving
\* the messages sent and not yet forwarded are at most a fixed capacity, however
\* slow the forwarder is.
C21_ChannelBounded == Len(chan) <= ChannelCapacity

----------------------------------------------------------------------------
(* Claims about the child index and the tree (specification SpecIndex) *)

IndexBuilt == pc \in { "idx_done", "idx_tree" }

\* the position of the last backslash of p
LastBackslash(p) ==
    CHOOSE i \in 1..Len(p) : p[i] = BS /\ \A j \in (i + 1)..Len(p) : p[j] # BS

\* the prefix of p before its last backslash
ParentKey(p) == SubSeq(p, 1, LastBackslash(p) - 1)

\* p without trailing backslashes is X: , whatever the case of X
IsRootPath(p, X) ==
    /\ Len(p) >= 2
    /\ SameAsciiLetter(p[1], X[1])
    /\ p[2] = ":"
    /\ \A i \in 3..Len(p) : p[i] = BS

\* how often r occurs in the list s
Count(s, r) == Cardinality({ i \in 1..Len(s) : s[i] = r })

\* the list the index has for the key k
ListAt(idx, k) == IF k \in DOMAIN idx THEN idx[k] ELSE <<>>

\* C23: child index. Every record whose trimmed path is not the volume root is
\* in the index once per occurrence in the buffer, in the list keyed by the
\* prefix of its path before the last backslash, and in no other list; the
\* volume-root record is in no list; the lists hold nothing else; and every
\* record X:\name is a direct child of the root node of the tree.
C23_ChildIndex ==
    IndexBuilt =>
        LET recs == arg.records
            idx == ret[1].index
        IN /\ \A i \in 1..Len(recs) :
                 \A k \in DOMAIN idx \cup { ParentKey(recs[i].full_path) } :
                     Count(ListAt(idx, k), recs[i]) =
                         IF ~IsRootPath(recs[i].full_path, DriveF) /\ k = ParentKey(recs[i].full_path)
                         THEN Count(recs, recs[i])
                         ELSE 0
           /\ \A k \in DOMAIN idx :
                 /\ idx[k] # <<>>
                 /\ \A j \in 1..Len(idx[k]) : \E i \in 1..Len(recs) : recs[i] = idx[k][j]
           /\ pc = "idx_tree" =>
                 \A i \in 1..Len(recs) :
                     (~IsRootPath(recs[i].full_path, DriveF)
                        /\ ParentKey(recs[i].full_path) = DriveF \o <<":">>) =>
                     Cardinality({ j \in 1..Len(Root.children) :
                                     Root.children[j].path = recs[i].full_path })
                         = Cardinality({ j \in 1..Len(recs) : recs[j].full_path = recs[i].full_path })

\* four records in four chunks, a child of the root before the root record and
\* a file before its directory: two lists, two children of the root
C23_Witness ==
    /\ pc = "idx_tree"
    /\ arg.chunk_size = 1
    /\ arg.records = << IndexRecord(<< <<"b">> >>, 5, FALSE), IndexRecord(<<>>, 0, TRUE),
                        IndexRecord(<< <<"a">>, <<"b">> >>, 2, FALSE),
                        IndexRecord(<< <<"a">> >>, 0, TRUE) >>
    /\ DOMAIN ret[1].index = { <<"F", ":">>, <<"F", ":", BS, "a">> }
    /\ Len(Root.children) = 2

\* the records of the buffer with parent key k, the volume-root record left
\* out, in buffer order
RECURSIVE BufferOrderWithin(_, _, _, _)
BufferOrderWithin(recs, k, lo, hi) ==
    IF lo > hi THEN <<>>
    ELSE IF lo = hi
    THEN IF ~IsRootPath(recs[lo].full_path, DriveF) /\ ParentKey(recs[lo].full_path) = k
         THEN <<recs[lo]>>
         ELSE <<>>
    ELSE LET mid == (lo + hi) \div 2
         IN BufferOrderWithin(recs, k, lo, mid) \o BufferOrderWithin(recs, k, mid + 1, hi)

BufferOrder(recs, k) == BufferOrderWithin(recs, k, 1, Len(recs))

PathsOf(s) == [i \in 1..Len(s) |-> s[i].full_path]

\* C24: child-list order. Whatever the chunks and the grouping of the merges,
\* the list of every key holds its records in the order of the record buffer;
\* so the children of every node of the tree are the first records of that
\* directory in buffer order, the first MAX_CHILDREN_PER_DIR of them where the
\* fan-out cap has dropped any.
C24_ChildListOrder ==
    IndexBuilt =>
        LET recs == arg.records
            idx == ret[1].index
        IN /\ \A k \in DOMAIN idx : idx[k] = BufferOrder(recs, k)
           /\ pc = "idx_tree" =>
                 \A e \in TreeNodes :
                     e.node.children # <<>> =>
                         LET key == IF e.depth = 0 THEN DriveF \o <<":">> ELSE e.node.path
                             all == PathsOf(BufferOrder(recs, key))
                             kept == [i \in 1..Len(e.node.children) |-> e.node.children[i].path]
                         IN /\ Len(kept) <= Len(all)
                            /\ kept = SubSeq(all, 1, Len(kept))
                            /\ (e.depth > 0 /\ Len(kept) < Len(all)) => Len(kept) = MAX_CHILDREN_PER_DIR

\* the wide buffer in three chunks: the directory keeps the first
\* MAX_CHILDREN_PER_DIR of its files, which come from all three
C24_Witness ==
    /\ pc = "idx_tree"
    /\ arg.records = WideRecords
    /\ arg.chunk_size = WideChunk
    /\ Len(Root.children) = 1
    /\ Len(Root.children[1].children) = MAX_CHILDREN_PER_DIR
    /\ Len(ret[1].index[Root.children[1].path]) = WideCount

----------------------------------------------------------------------------
(* Claims about the heap of scan_volume_mft_top_files (specification SpecTop) *)

\* the record at position i of the stream is a file of the scanned volume
IsAcceptedFile(i) ==
    /\ ~mft[i].is_directory
    /\ UnderVolume(normalize_ntfs_path(mft[i].path, drive[1]), drive[1])

\* the heap entry of the record at position i
EntryOf(i) == <<mft[i].size, normalize_ntfs_path(mft[i].path, drive[1]), modified_of(mft[i])>>

\* the positions among the first k of the accepted files, and of those with entry e
SeenPositions(k) == { i \in 1..k : IsAcceptedFile(i) }
SeenCopies(k, e) == Cardinality({ i \in SeenPositions(k) : EntryOf(i) = e })

\* h holds min(n, seen) of the entries seen among the first k records, and no
\* entry left out is larger than one kept
HoldsLargest(h, k) ==
    /\ BagCardinality(h) = Min(n, Cardinality(SeenPositions(k)))
    /\ \A e \in BagToSet(h) : CopiesIn(e, h) <= SeenCopies(k, e)
    /\ \A i \in SeenPositions(k) :
          CopiesIn(EntryOf(i), h) < SeenCopies(k, EntryOf(i))
              => \A e \in BagToSet(h) : EntryOf(i)[1] <= e[1]

\* C25: the heap of the top-N mode. After each record the heap holds at most n
\* entries (none when n = 0), one more than n at most while the record is
\* handled, and they are min(n, k) largest by size of the k accepted files seen
\* so far; an entry leaves the heap only as a smallest one of a heap of more
\* than n entries.
C25_HeapStreaming ==
    [][(pc = "top_iterate" /\ pos' = pos + 1) =>
         LET pushed == IF IsAcceptedFile(pos + 1) THEN heap (+) SetToBag({EntryOf(pos + 1)})
                       ELSE heap
         IN /\ HoldsLargest(heap', pos')
            /\ BagCardinality(heap') <= n
            /\ n = 0 => heap' = EmptyBag
            /\ BagCardinality(pushed) <= n + 1
            /\ \A e \in BagToSet(pushed) :
                  CopiesIn(e, heap') < CopiesIn(e, pushed) =>
                      /\ BagCardinality(pushed) > n
                      /\ \A y \in BagToSet(pushed) : e[1] <= y[1]
                      /\ CopiesIn(e, heap') = CopiesIn(e, pushed) - 1
                      /\ BagCardinality(heap') = BagCardinality(pushed) - 1]_vars

\* scenario 6 with n = 3 has been streamed: the heap holds the three largest of
\* six files, the three smaller ones have left it
C25_Witness ==
    /\ pc = "top_iterate"
    /\ n = 3
    /\ mft = TopScenario
    /\ pos = Len(TopScenario)
    /\ { e[1] : e \in BagToSet(heap) } = { 50, 200 }
    /\ BagCardinality(heap) = 3

----------------------------------------------------------------------------
(* Claims about the shape of the result tree (specification Spec) *)

\* the node at position q of the tree under node
RECURSIVE NodeAt(_, _)
NodeAt(node, q) == IF q = <<>> THEN node ELSE NodeAt(node.children[q[1]], Tail(q))

NonRootPositions == Positions(Root) \ { <<>> }

\* the positions of the buffer whose record has the path p
RecordPositions(p) == { i \in 1..Len(records) : records[i].full_path = p }

\* the positions of the tree, the root aside, whose node has the path p
NodePositions(p) == { q \in NonRootPositions : NodeAt(Root, q).path = p }

\* the path a child named name has under the node at position q
PathUnder(q, name) ==
    IF q = <<>> THEN drive[1] \o <<":", BS>> \o name
    ELSE NodeAt(Root, q).path \o <<BS>> \o name

\* no two accepted records have the same path
DistinctPaths ==
    \A i, j \in 1..Len(records) : records[i].full_path = records[j].full_path => i = j

\* the parts of C26 for the node at position q
WellFormedAt(q) ==
    LET c == NodeAt(Root, q)
    IN /\ Cardinality(RecordPositions(c.path)) = 1
       /\ c.name = rsplit_next(c.path, BS)
       /\ c.path = PathUnder(SubSeq(q, 1, Len(q) - 1), c.name)

\* C26 as stated: in every result tree each non-root node has the path of
\* exactly one accepted record and no record has more than one node; the name of
\* a node is the last segment of its path, the path of a child of a non-root
\* node p is p.path, a backslash and the child's name, and the path of a direct
\* child of the root is X:\ and the child's name.
C26_TreeWellFormed ==
    TreeDone =>
        /\ \A q \in NonRootPositions : WellFormedAt(q)
        /\ \A i \in 1..Len(records) : Cardinality(NodePositions(records[i].full_path)) <= 1

\* C26 amended: the same for every result tree built from accepted records of
\* pairwise distinct paths.
C26_TreeWellFormedDistinctPaths ==
    (TreeDone /\ DistinctPaths) =>
        /\ \A q \in NonRootPositions : WellFormedAt(q)
        /\ \A i \in 1..Len(records) : Cardinality(NodePositions(records[i].full_path)) <= 1

\* a tree of distinct paths with a direct child of the root, a child of that
\* child, and a record that has no node because its parent has no record
C26_Witness ==
    /\ TreeDone
    /\ DistinctPaths
    /\ \E q \in NonRootPositions : Len(q) = 2
    /\ \E i \in 1..Len(records) :
          /\ ~is_root_record(records[i], drive[1] \o <<":">>)
          /\ NodePositions(records[i].full_path) = {}

====
